---- MODULE Spec2Model ----
(***************************************************************************)
(* Model of the qms-cli document lifecycle: the command layer             *)
(* (src/commands/*.py) over the metadata store (src/qms_meta.py), the     *)
(* audit log (src/qms_audit.py), the permission table (src/qms_auth.py,   *)
(* src/qms_config.py), the workflow engine (src/workflow.py) and the      *)
(* filesystem layout (src/qms_paths.py).                                  *)
(*                                                                         *)
(* Every command is a pure operator cmd_x(s, ...) from a project state s  *)
(* (a record of the files on disk) to [s |-> state after, ok |-> exit     *)
(* code 0].  The actions apply these operators to the variables.          *)
(*                                                                         *)
(* Not modelled: timestamps, titles and document bodies.                  *)
(***************************************************************************)
EXTENDS Integers, Sequences, FiniteSets, TLC

VARIABLES
    meta,       \* QMS/.meta/<type>/<doc>.json : function doc id -> metadata record
    draft,      \* set of doc ids whose <doc>-draft.md exists
    effective,  \* set of doc ids whose <doc>.md exists
    archive,    \* set of <<doc id, version>> : QMS/.archive/.../<doc>-v<version>.md
    workspace,  \* set of <<user, doc id>> : .claude/users/<user>/workspace/<doc>.md
    inbox,      \* set of task files [user, doc, wf, version]
    audit,      \* QMS/.audit/<type>/<doc>.jsonl : function doc id -> sequence of events
    folders,    \* set of doc ids whose folder QMS/<path>/<doc>/ exists (folder_per_doc types)
    last,       \* the last command invocation and its outcome
    steps       \* number of commands that have exited 0

vars == <<meta, draft, effective, archive, workspace, inbox, audit, folders, last, steps>>

----------------------------------------------------------------------------
(* Bounds *)

\* commands that exit 0 in one behaviour (counted from the initial state)
MaxSteps == 2
\* highest document number the model allocates
MaxDocNum == 1

----------------------------------------------------------------------------
(* Values *)

Null == "null"

V(a, b) == [major |-> a, minor |-> b]
\* stands for a JSON null where a version is expected
NoVersion == V(-1, -1)
\* int(str(version).split(".")[0])
Major(v) == v.major

Users == {"claude", "lead", "qa"}

Range(f) == {f[i] : i \in DOMAIN f}

\* variant: the filter drops every pending user, not only the caller
Without_drops_all(seq, user) == <<>>

\* [u for u in seq if u != user]
RECURSIVE Without(_, _)
Without(seq, user) ==
    IF seq = <<>> THEN <<>>
    ELSE IF Head(seq) = user THEN Without(Tail(seq), user)
         ELSE <<Head(seq)>> \o Without(Tail(seq), user)

\* str.startswith on the dash-separated components of a document id
IsPrefix(p, q) == Len(p) <= Len(q) /\ SubSeq(q, 1, Len(p)) = p

----------------------------------------------------------------------------
(* qms_config.py *)

Status ==
    {"DRAFT", "IN_REVIEW", "REVIEWED", "IN_APPROVAL", "APPROVED", "EFFECTIVE",
     "IN_PRE_REVIEW", "PRE_REVIEWED", "IN_PRE_APPROVAL", "PRE_APPROVED",
     "IN_EXECUTION", "IN_POST_REVIEW", "POST_REVIEWED", "IN_POST_APPROVAL",
     "POST_APPROVED", "CLOSED", "RETIRED"}

TRANSITIONS ==
    [s \in Status |->
        CASE s = "DRAFT" -> {"IN_REVIEW", "IN_PRE_REVIEW", "IN_POST_REVIEW"}
          [] s = "IN_REVIEW" -> {"REVIEWED"}
          [] s = "REVIEWED" -> {"IN_REVIEW", "IN_APPROVAL"}
          [] s = "IN_APPROVAL" -> {"APPROVED", "REVIEWED"}
          [] s = "APPROVED" -> {"EFFECTIVE"}
          [] s = "IN_PRE_REVIEW" -> {"PRE_REVIEWED"}
          [] s = "PRE_REVIEWED" -> {"IN_PRE_REVIEW", "IN_PRE_APPROVAL"}
          [] s = "IN_PRE_APPROVAL" -> {"PRE_APPROVED", "PRE_REVIEWED"}
          [] s = "PRE_APPROVED" -> {"IN_EXECUTION"}
          [] s = "IN_EXECUTION" -> {"IN_POST_REVIEW"}
          [] s = "IN_POST_REVIEW" -> {"POST_REVIEWED"}
          [] s = "POST_REVIEWED" -> {"IN_POST_REVIEW", "IN_POST_APPROVAL", "IN_EXECUTION"}
          [] s = "IN_POST_APPROVAL" -> {"POST_APPROVED", "POST_REVIEWED"}
          [] s = "POST_APPROVED" -> {"CLOSED"}
          [] OTHER -> {}]

\* the document types the model creates: one flat non-executable type, one
\* folder-per-document executable type and one type nested under a parent
DOCUMENT_TYPES ==
    [SOP |-> [path |-> "SOP", executable |-> FALSE, prefix |-> "SOP", folder_per_doc |-> FALSE],
     CR  |-> [path |-> "CR",  executable |-> TRUE,  prefix |-> "CR",  folder_per_doc |-> TRUE],
     VAR |-> [path |-> "CR",  executable |-> TRUE,  prefix |-> "VAR", folder_per_doc |-> FALSE]]

DocTypes == DOMAIN DOCUMENT_TYPES

\* f"{prefix}-{next_num:03d}" : a document id is the sequence of its
\* dash-separated components
MakeId(prefix, n) == <<prefix, n>>

DocIds == {MakeId(DOCUMENT_TYPES[t].prefix, n) : t \in DocTypes, n \in 1..MaxDocNum}

VALID_USERS == {"lead", "claude", "qa", "bu", "tu_ui", "tu_scene", "tu_sketch", "tu_sim"}

USER_GROUPS ==
    [administrator |-> {"lead", "claude"},
     initiator     |-> {},
     quality       |-> {"qa"},
     reviewer      |-> {"tu_ui", "tu_scene", "tu_sketch", "tu_sim", "bu"}]

GROUP_HIERARCHY == <<"administrator", "initiator", "quality", "reviewer">>

PERMISSIONS ==
    [create   |-> [groups |-> {"initiator"}, owner_only |-> FALSE, assigned_only |-> FALSE],
     checkout |-> [groups |-> {"initiator"}, owner_only |-> FALSE, assigned_only |-> FALSE],
     checkin  |-> [groups |-> {"initiator"}, owner_only |-> TRUE,  assigned_only |-> FALSE],
     route    |-> [groups |-> {"initiator"}, owner_only |-> TRUE,  assigned_only |-> FALSE],
     assign   |-> [groups |-> {"quality"},   owner_only |-> FALSE, assigned_only |-> FALSE],
     review   |-> [groups |-> {"initiator", "quality", "reviewer"},
                   owner_only |-> FALSE, assigned_only |-> TRUE],
     approve  |-> [groups |-> {"quality", "reviewer"}, owner_only |-> FALSE, assigned_only |-> TRUE],
     reject   |-> [groups |-> {"quality", "reviewer"}, owner_only |-> FALSE, assigned_only |-> TRUE],
     release  |-> [groups |-> {"initiator"}, owner_only |-> TRUE,  assigned_only |-> FALSE],
     revert   |-> [groups |-> {"initiator"}, owner_only |-> TRUE,  assigned_only |-> FALSE],
     close    |-> [groups |-> {"initiator"}, owner_only |-> TRUE,  assigned_only |-> FALSE]]

----------------------------------------------------------------------------
(* qms_auth.py *)

HARDCODED_ADMINS == {"lead", "claude"}

\* the agent files .claude/agents/<user>.md of the project and their group:
\* frontmatter; qa is the quality user of the repository's test projects
AgentFiles == [qa |-> "quality"]

read_agent_group(user) ==
    IF user \in DOMAIN AgentFiles THEN AgentFiles[user] ELSE Null

get_user_group(user) ==
    IF user \in HARDCODED_ADMINS THEN "administrator"
    ELSE IF read_agent_group(user) # Null THEN read_agent_group(user)
    ELSE "unknown"

verify_user_identity(user) ==
    \/ user \in HARDCODED_ADMINS
    \/ read_agent_group(user) \in {"administrator", "initiator", "quality", "reviewer"}

\* GROUP_HIERARCHY.index(g); 0 when g is not in the list (ValueError)
Level(g) ==
    IF \E i \in DOMAIN GROUP_HIERARCHY : GROUP_HIERARCHY[i] = g
    THEN CHOOSE i \in DOMAIN GROUP_HIERARCHY : GROUP_HIERARCHY[i] = g
    ELSE 0

has_group_permission(user_group, allowed_groups) ==
    \/ user_group \in allowed_groups
    \/ /\ Level(user_group) # 0
       /\ \E allowed \in allowed_groups :
            Level(allowed) # 0 /\ Level(user_group) < Level(allowed)

\* check_permission(user, command) : the group-level check only
group_allowed(user, command) ==
    has_group_permission(get_user_group(user), PERMISSIONS[command].groups)

\* variant: the owner_only clause is never applied
owner_denied_never(user, command, doc_owner) == FALSE

\* the owner_only clause of check_permission(user, command, doc_owner=...)
owner_denied(user, command, doc_owner) ==
    PERMISSIONS[command].owner_only /\ doc_owner # Null /\ doc_owner # user

\* check_permission(user, command, doc_owner) as the commands call it (no
\* command passes assigned_users, so the assigned_only clause never runs)
check_permission(user, command, doc_owner) ==
    /\ command \in DOMAIN PERMISSIONS => group_allowed(user, command)
    /\ command \in DOMAIN PERMISSIONS => ~owner_denied(user, command, doc_owner)

----------------------------------------------------------------------------
(* workflow.py *)

PRE_RELEASE == "pre_release"
POST_RELEASE == "post_release"

T(from, to, action, wf, exec, phase, bump, arch, clears) ==
    [from_status |-> from, to_status |-> to, action |-> action, workflow_type |-> wf,
     for_executable |-> exec, requires_phase |-> phase, version_bump |-> bump,
     archives_version |-> arch, clears_owner |-> clears]

\* variant: a second route_review transition from DRAFT for executable
\* documents that asks for no phase
WORKFLOW_TRANSITIONS_ambiguous ==
    {T("DRAFT", "IN_REVIEW", "route_review", "REVIEW", "no", Null, Null, FALSE, FALSE),
     T("DRAFT", "IN_PRE_REVIEW", "route_review", "PRE_REVIEW", "yes", PRE_RELEASE, Null, FALSE, FALSE),
     T("DRAFT", "IN_POST_REVIEW", "route_review", "POST_REVIEW", "yes", Null, Null, FALSE, FALSE),
     T("IN_EXECUTION", "IN_POST_REVIEW", "route_review", "POST_REVIEW", "yes", POST_RELEASE, Null, FALSE, FALSE),
     T("REVIEWED", "IN_APPROVAL", "route_approval", "APPROVAL", "no", Null, Null, FALSE, FALSE),
     T("PRE_REVIEWED", "IN_PRE_APPROVAL", "route_approval", "PRE_APPROVAL", "yes", PRE_RELEASE, Null, FALSE, FALSE),
     T("POST_REVIEWED", "IN_POST_APPROVAL", "route_approval", "POST_APPROVAL", "yes", POST_RELEASE, Null, FALSE, FALSE),
     T("IN_REVIEW", "REVIEWED", "review", "REVIEW", "no", Null, Null, FALSE, FALSE),
     T("IN_PRE_REVIEW", "PRE_REVIEWED", "review", "PRE_REVIEW", "yes", Null, Null, FALSE, FALSE),
     T("IN_POST_REVIEW", "POST_REVIEWED", "review", "POST_REVIEW", "yes", Null, Null, FALSE, FALSE),
     T("IN_APPROVAL", "APPROVED", "approve", "APPROVAL", "no", Null, "major", TRUE, FALSE),
     T("IN_PRE_APPROVAL", "PRE_APPROVED", "approve", "PRE_APPROVAL", "yes", Null, "major", TRUE, FALSE),
     T("IN_POST_APPROVAL", "POST_APPROVED", "approve", "POST_APPROVAL", "yes", Null, "major", TRUE, FALSE),
     T("IN_APPROVAL", "REVIEWED", "reject", "APPROVAL", "no", Null, Null, FALSE, FALSE),
     T("IN_PRE_APPROVAL", "PRE_REVIEWED", "reject", "PRE_APPROVAL", "yes", Null, Null, FALSE, FALSE),
     T("IN_POST_APPROVAL", "POST_REVIEWED", "reject", "POST_APPROVAL", "yes", Null, Null, FALSE, FALSE),
     T("PRE_APPROVED", "IN_EXECUTION", "release", Null, "yes", Null, Null, FALSE, FALSE),
     T("POST_REVIEWED", "IN_EXECUTION", "revert", Null, "yes", Null, Null, FALSE, FALSE),
     T("POST_APPROVED", "CLOSED", "close", Null, "yes", Null, Null, FALSE, TRUE)}

\* for_executable is "yes", "no" or Null (both); requires_phase is a phase or Null
WORKFLOW_TRANSITIONS ==
    {T("DRAFT", "IN_REVIEW", "route_review", "REVIEW", "no", Null, Null, FALSE, FALSE),
     T("DRAFT", "IN_PRE_REVIEW", "route_review", "PRE_REVIEW", "yes", PRE_RELEASE, Null, FALSE, FALSE),
     T("DRAFT", "IN_POST_REVIEW", "route_review", "POST_REVIEW", "yes", POST_RELEASE, Null, FALSE, FALSE),
     T("IN_EXECUTION", "IN_POST_REVIEW", "route_review", "POST_REVIEW", "yes", POST_RELEASE, Null, FALSE, FALSE),
     T("REVIEWED", "IN_APPROVAL", "route_approval", "APPROVAL", "no", Null, Null, FALSE, FALSE),
     T("PRE_REVIEWED", "IN_PRE_APPROVAL", "route_approval", "PRE_APPROVAL", "yes", PRE_RELEASE, Null, FALSE, FALSE),
     T("POST_REVIEWED", "IN_POST_APPROVAL", "route_approval", "POST_APPROVAL", "yes", POST_RELEASE, Null, FALSE, FALSE),
     T("IN_REVIEW", "REVIEWED", "review", "REVIEW", "no", Null, Null, FALSE, FALSE),
     T("IN_PRE_REVIEW", "PRE_REVIEWED", "review", "PRE_REVIEW", "yes", Null, Null, FALSE, FALSE),
     T("IN_POST_REVIEW", "POST_REVIEWED", "review", "POST_REVIEW", "yes", Null, Null, FALSE, FALSE),
     T("IN_APPROVAL", "APPROVED", "approve", "APPROVAL", "no", Null, "major", TRUE, FALSE),
     T("IN_PRE_APPROVAL", "PRE_APPROVED", "approve", "PRE_APPROVAL", "yes", Null, "major", TRUE, FALSE),
     T("IN_POST_APPROVAL", "POST_APPROVED", "approve", "POST_APPROVAL", "yes", Null, "major", TRUE, FALSE),
     T("IN_APPROVAL", "REVIEWED", "reject", "APPROVAL", "no", Null, Null, FALSE, FALSE),
     T("IN_PRE_APPROVAL", "PRE_REVIEWED", "reject", "PRE_APPROVAL", "yes", Null, Null, FALSE, FALSE),
     T("IN_POST_APPROVAL", "POST_REVIEWED", "reject", "POST_APPROVAL", "yes", Null, Null, FALSE, FALSE),
     T("PRE_APPROVED", "IN_EXECUTION", "release", Null, "yes", Null, Null, FALSE, FALSE),
     T("POST_REVIEWED", "IN_EXECUTION", "revert", Null, "yes", Null, Null, FALSE, FALSE),
     T("POST_APPROVED", "CLOSED", "close", Null, "yes", Null, Null, FALSE, TRUE)}

Action ==
    {"route_review", "route_approval", "review", "approve", "reject",
     "release", "revert", "close"}

_infer_phase(status) ==
    IF status \in {"DRAFT", "IN_PRE_REVIEW", "PRE_REVIEWED", "IN_PRE_APPROVAL", "PRE_APPROVED"}
    THEN PRE_RELEASE
    ELSE IF status \in {"IN_EXECUTION", "IN_POST_REVIEW", "POST_REVIEWED",
                        "IN_POST_APPROVAL", "POST_APPROVED", "CLOSED"}
    THEN POST_RELEASE
    ELSE Null

\* the transitions get_transition keeps after its two filters
Matching(current_status, action, is_executable, execution_phase) ==
    {t \in WORKFLOW_TRANSITIONS :
        /\ t.from_status = current_status
        /\ t.action = action
        /\ t.for_executable # Null => (t.for_executable = "yes") = is_executable
        /\ t.requires_phase # Null =>
              /\ is_executable
              /\ (IF execution_phase = Null THEN _infer_phase(current_status)
                  ELSE execution_phase) = t.requires_phase}

get_transition(current_status, action, is_executable, execution_phase) ==
    LET matching == Matching(current_status, action, is_executable, execution_phase) IN
    IF Cardinality(matching) = 1
    THEN LET t == CHOOSE x \in matching : TRUE IN
         [success |-> TRUE, to_status |-> t.to_status, workflow_type |-> t.workflow_type]
    ELSE [success |-> FALSE, to_status |-> Null, workflow_type |-> Null]

is_review_status(status) == status \in {"IN_REVIEW", "IN_PRE_REVIEW", "IN_POST_REVIEW"}

is_approval_status(status) == status \in {"IN_APPROVAL", "IN_PRE_APPROVAL", "IN_POST_APPROVAL"}

get_reviewed_status(current_status) ==
    CASE current_status = "IN_REVIEW" -> "REVIEWED"
      [] current_status = "IN_PRE_REVIEW" -> "PRE_REVIEWED"
      [] current_status = "IN_POST_REVIEW" -> "POST_REVIEWED"
      [] OTHER -> Null

get_approved_status(current_status) ==
    CASE current_status = "IN_APPROVAL" -> "APPROVED"
      [] current_status = "IN_PRE_APPROVAL" -> "PRE_APPROVED"
      [] current_status = "IN_POST_APPROVAL" -> "POST_APPROVED"
      [] OTHER -> Null

\* variant: a rejection sends the document back to DRAFT
get_rejection_target_draft(current_status) ==
    CASE current_status = "IN_APPROVAL" -> "DRAFT"
      [] current_status = "IN_PRE_APPROVAL" -> "DRAFT"
      [] current_status = "IN_POST_APPROVAL" -> "DRAFT"
      [] OTHER -> Null

get_rejection_target(current_status) ==
    CASE current_status = "IN_APPROVAL" -> "REVIEWED"
      [] current_status = "IN_PRE_APPROVAL" -> "PRE_REVIEWED"
      [] current_status = "IN_POST_APPROVAL" -> "POST_REVIEWED"
      [] OTHER -> Null

----------------------------------------------------------------------------
(* The project state: the files of one project *)

Put(f, k, v) == [x \in (DOMAIN f) \cup {k} |-> IF x = k THEN v ELSE f[x]]
Del(f, k) == [x \in (DOMAIN f) \ {k} |-> f[x]]

\* a project right after init: no documents
EmptyProject ==
    [meta |-> <<>>, draft |-> {}, effective |-> {}, archive |-> {}, workspace |-> {},
     inbox |-> {}, audit |-> <<>>, folders |-> {}]

\* what a command returns: the project after it and whether it exited 0
R(s, ok) == [s |-> s, ok |-> ok]

----------------------------------------------------------------------------
(* qms_paths.py *)

\* "-VAR-" in doc_id is tested before the prefix of the id (the names of an
\* id are its odd components)
get_doc_type(doc_id) ==
    IF Len(doc_id) >= 3 /\ doc_id[3] = "VAR" THEN "VAR" ELSE doc_id[1]

\* the names get_next_number finds in QMS/<path>/ : the files of flat types
\* and the folders of folder-per-document types
get_next_number(s, doc_type) ==
    LET config == DOCUMENT_TYPES[doc_type]
        items == IF config.folder_per_doc THEN s.folders ELSE s.draft \cup s.effective
        nums == {d[2] : d \in {x \in items : x[1] = config.prefix}}
        max_num == IF nums = {} THEN 0 ELSE CHOOSE n \in nums : \A m \in nums : m <= n
    IN max_num + 1

\* the files <parent_id>-<child_type>-NNN found in the parent's folder
get_next_nested_number(s, parent_id, child_type) ==
    LET items == s.draft \cup s.effective
        nums == {d[Len(parent_id) + 2] :
                    d \in {x \in items : /\ Len(x) = Len(parent_id) + 2
                                         /\ IsPrefix(parent_id \o <<child_type>>, x)}}
        max_num == IF nums = {} THEN 0 ELSE CHOOSE n \in nums : \A m \in nums : m <= n
    IN max_num + 1

----------------------------------------------------------------------------
(* qms_meta.py *)

\* read_meta(doc_id, doc_type) or {} : a missing .meta file reads as {} and
\* the commands' meta.get defaults apply
read_meta(s, doc_id) ==
    IF doc_id \in DOMAIN s.meta THEN s.meta[doc_id]
    ELSE [doc_type |-> get_doc_type(doc_id), version |-> V(0, 1), status |-> "DRAFT",
          executable |-> FALSE, execution_phase |-> Null, responsible_user |-> Null,
          checked_out |-> FALSE, checked_out_date |-> Null, effective_version |-> NoVersion,
          pending_assignees |-> <<>>, retiring |-> FALSE, review_outcome |-> Null]

write_meta(s, doc_id, m) == [s EXCEPT !.meta = Put(s.meta, doc_id, m)]

create_initial_meta(doc_type, version, status, executable, responsible_user) ==
    [doc_type |-> doc_type, version |-> version, status |-> status,
     executable |-> executable,
     execution_phase |-> IF executable THEN PRE_RELEASE ELSE Null,
     responsible_user |-> responsible_user,
     checked_out |-> responsible_user # Null,
     checked_out_date |-> IF responsible_user # Null THEN "today" ELSE Null,
     effective_version |-> NoVersion,
     pending_assignees |-> <<>>, retiring |-> FALSE, review_outcome |-> Null]

update_meta_checkout(m, user, new_version) ==
    [m EXCEPT !.responsible_user = user,
              !.checked_out = TRUE,
              !.checked_out_date = "today",
              !.version = IF new_version # NoVersion THEN new_version ELSE @]

\* variant: checkin keeps a reviewed status
update_meta_checkin_keeps_status(m) ==
    [m EXCEPT !.checked_out = FALSE, !.checked_out_date = Null]

\* pending_assignees is not among the fields checkin resets (it resets
\* pending_reviewers, completed_reviewers and review_outcomes)
update_meta_checkin(m) ==
    LET m1 == [m EXCEPT !.checked_out = FALSE, !.checked_out_date = Null] IN
    IF m1.status \in {"REVIEWED", "PRE_REVIEWED", "POST_REVIEWED"}
    THEN [m1 EXCEPT !.status = "DRAFT", !.review_outcome = Null]
    ELSE m1

\* variant: routing also clears the owner
update_meta_route_clears_owner(m, new_status, assignees) ==
    [m EXCEPT !.status = new_status, !.pending_assignees = assignees,
              !.responsible_user = Null]

\* variant: the routing changes the status and stores no assignees
update_meta_route_no_assignees(m, new_status, assignees) ==
    [m EXCEPT !.status = new_status, !.pending_assignees = <<>>]

update_meta_route(m, new_status, assignees) ==
    [m EXCEPT !.status = new_status, !.pending_assignees = assignees]

\* review.py passes the outcome to update_meta_review_complete; the
\* qms_meta.py at hand has the function without that argument.  How the
\* outcome is kept follows spec section 4.3: the latest completed review
\* outcome is what the approval gate reads.
record_review_outcome(m, outcome) == [m EXCEPT !.review_outcome = outcome]

update_meta_review_complete(m, user, remaining_assignees, outcome, new_status) ==
    [record_review_outcome(m, outcome)
        EXCEPT !.pending_assignees = remaining_assignees,
               !.status = IF new_status # Null THEN new_status ELSE @]

\* check_approval_gate is imported by route.py and not defined in
\* qms_meta.py; spec section 4.3: the latest completed review outcome must
\* be RECOMMEND.
check_approval_gate(m) == m.review_outcome = "RECOMMEND"

\* variant: clear_owner clears the owner and leaves the checkout flag
update_meta_approval_stays_checked_out(m, new_status, new_version, clear_owner) ==
    LET m1 == [m EXCEPT !.status = new_status,
                        !.pending_assignees = <<>>,
                        !.version = IF new_version # NoVersion THEN new_version ELSE @]
    IN IF clear_owner
       THEN [m1 EXCEPT !.responsible_user = Null,
                       !.effective_version = m1.version]
       ELSE m1

\* variant: clear_owner is ignored
update_meta_approval_keeps_owner(m, new_status, new_version, clear_owner) ==
    [m EXCEPT !.status = new_status,
              !.pending_assignees = <<>>,
              !.version = IF new_version # NoVersion THEN new_version ELSE @]

\* variant: the new version is not stored
update_meta_approval_keeps_version(m, new_status, new_version, clear_owner) ==
    LET m1 == [m EXCEPT !.status = new_status, !.pending_assignees = <<>>]
    IN IF clear_owner
       THEN [m1 EXCEPT !.responsible_user = Null,
                       !.checked_out = FALSE,
                       !.checked_out_date = Null,
                       !.effective_version = m1.version]
       ELSE m1

\* variant: effective_version is not recorded when the owner is cleared
update_meta_approval_no_effective_version(m, new_status, new_version, clear_owner) ==
    LET m1 == [m EXCEPT !.status = new_status,
                        !.pending_assignees = <<>>,
                        !.version = IF new_version # NoVersion THEN new_version ELSE @]
    IN IF clear_owner
       THEN [m1 EXCEPT !.responsible_user = Null,
                       !.checked_out = FALSE,
                       !.checked_out_date = Null]
       ELSE m1

update_meta_approval(m, new_status, new_version, clear_owner) ==
    LET m1 == [m EXCEPT !.status = new_status,
                        !.pending_assignees = <<>>,
                        !.version = IF new_version # NoVersion THEN new_version ELSE @]
    IN IF clear_owner
       THEN [m1 EXCEPT !.responsible_user = Null,
                       !.checked_out = FALSE,
                       !.checked_out_date = Null,
                       !.effective_version = m1.version]
       ELSE m1

----------------------------------------------------------------------------
(* qms_audit.py *)

create_event(event_type, user, version) ==
    [event |-> event_type, user |-> user, version |-> version,
     from_version |-> NoVersion, from_status |-> Null, to_status |-> Null,
     outcome |-> Null, comment |-> Null, assignees |-> <<>>, wtype |-> Null]

read_audit_log(s, doc_id) ==
    IF doc_id \in DOMAIN s.audit THEN s.audit[doc_id] ELSE <<>>

\* variant: open(audit_path, "w") : the file is rewritten with the one line
append_audit_event_truncates(s, doc_id, event) ==
    [s EXCEPT !.audit = Put(s.audit, doc_id, <<event>>)]

\* open(audit_path, "a") : creates the file or appends one line to it
append_audit_event(s, doc_id, event) ==
    [s EXCEPT !.audit = Put(s.audit, doc_id, Append(read_audit_log(s, doc_id), event))]

log_create(s, d, user, version) ==
    append_audit_event(s, d, create_event("CREATE", user, version))

log_checkout(s, d, user, version, from_version) ==
    append_audit_event(s, d,
        [create_event("CHECKOUT", user, version) EXCEPT !.from_version = from_version])

log_checkin(s, d, user, version) ==
    append_audit_event(s, d, create_event("CHECKIN", user, version))

log_route_review(s, d, user, version, assignees, review_type) ==
    append_audit_event(s, d,
        [create_event("ROUTE_REVIEW", user, version)
            EXCEPT !.assignees = assignees, !.wtype = review_type])

log_route_approval(s, d, user, version, assignees, approval_type) ==
    append_audit_event(s, d,
        [create_event("ROUTE_APPROVAL", user, version)
            EXCEPT !.assignees = assignees, !.wtype = approval_type])

log_review(s, d, user, version, outcome, comment) ==
    append_audit_event(s, d,
        [create_event("REVIEW", user, version)
            EXCEPT !.outcome = outcome, !.comment = comment])

log_approve(s, d, user, version) ==
    append_audit_event(s, d, create_event("APPROVE", user, version))

log_reject(s, d, user, version, comment) ==
    append_audit_event(s, d,
        [create_event("REJECT", user, version) EXCEPT !.comment = comment])

log_effective(s, d, user, old_version, new_version) ==
    append_audit_event(s, d,
        [create_event("EFFECTIVE", user, new_version) EXCEPT !.from_version = old_version])

log_release(s, d, user, version) ==
    append_audit_event(s, d, create_event("RELEASE", user, version))

log_revert(s, d, user, version, reason) ==
    append_audit_event(s, d,
        [create_event("REVERT", user, version) EXCEPT !.comment = reason])

log_close(s, d, user, version) ==
    append_audit_event(s, d, create_event("CLOSE", user, version))

\* variant: the RETIRE event is not written
log_retire_skipped(s, d, user, from_version, to_version) == s

log_retire(s, d, user, from_version, to_version) ==
    append_audit_event(s, d,
        [create_event("RETIRE", user, to_version) EXCEPT !.from_version = from_version])

log_status_change(s, d, user, version, from_status, to_status) ==
    append_audit_event(s, d,
        [create_event("STATUS_CHANGE", user, version)
            EXCEPT !.from_status = from_status, !.to_status = to_status])

----------------------------------------------------------------------------
(* Task files *)

\* variant: the version is not part of the task file's name
Task_without_version(user, doc_id, workflow_type, version) ==
    [user |-> user, doc |-> doc_id, wf |-> workflow_type, version |-> NoVersion]

\* task-<doc_id>-<workflow_type.lower()>-v<version>.md in <user>'s inbox
Task(user, doc_id, workflow_type, version) ==
    [user |-> user, doc |-> doc_id, wf |-> workflow_type, version |-> version]

\* inbox_path.glob(f"task-{doc_id}-*.md")
MatchesDoc(t, doc_id) == IsPrefix(doc_id, t.doc)

\* inbox.glob(f"task-{doc_id}-*approval*.md")
MatchesApproval(t, doc_id) ==
    MatchesDoc(t, doc_id) /\ t.wf \in {"APPROVAL", "PRE_APPROVAL", "POST_APPROVAL"}

\* "REVIEW" in workflow_type
IsReviewWorkflow(workflow_type) == workflow_type \in {"REVIEW", "PRE_REVIEW", "POST_REVIEW"}

----------------------------------------------------------------------------
(* commands/create.py *)

\* create without --parent
NoParent == <<>>

\* the id create gives the new document: <parent>-VAR-NNN for a VAR with a
\* parent, <prefix>-NNN otherwise
new_doc_id(s, doc_type, parent_id) ==
    IF doc_type = "VAR" /\ parent_id # NoParent
    THEN parent_id \o <<"VAR", get_next_nested_number(s, parent_id, "VAR")>>
    ELSE MakeId(DOCUMENT_TYPES[doc_type].prefix, get_next_number(s, doc_type))

cmd_create(s, user, doc_type, parent_id) ==
    IF ~verify_user_identity(user) THEN R(s, FALSE)
    ELSE IF ~check_permission(user, "create", Null) THEN R(s, FALSE)
    ELSE IF doc_type \notin DocTypes THEN R(s, FALSE)
    ELSE IF doc_type = "VAR" /\ parent_id = NoParent THEN R(s, FALSE)
    ELSE IF doc_type = "VAR" /\ parent_id \notin s.effective /\ parent_id \notin s.draft
         THEN R(s, FALSE)
    ELSE
    LET config == DOCUMENT_TYPES[doc_type]
        doc_id == new_doc_id(s, doc_type, parent_id)
    IN
    IF doc_id \in s.effective \/ doc_id \in s.draft THEN R(s, FALSE)
    ELSE
    LET s1 == [s EXCEPT !.folders = IF config.folder_per_doc THEN @ \cup {doc_id} ELSE @,
                        !.draft = @ \cup {doc_id}]
        s2 == write_meta(s1, doc_id,
                  create_initial_meta(doc_type, V(0, 1), "DRAFT", config.executable, user))
        s3 == log_create(s2, doc_id, user, V(0, 1))
        s4 == [s3 EXCEPT !.workspace = @ \cup {<<user, doc_id>>}]
    IN R(s4, TRUE)

----------------------------------------------------------------------------
(* commands/checkout.py *)

cmd_checkout(s, user, doc_id) ==
    IF ~verify_user_identity(user) THEN R(s, FALSE)
    ELSE IF ~check_permission(user, "checkout", Null) THEN R(s, FALSE)
    ELSE
    LET m == read_meta(s, doc_id) IN
    IF doc_id \in s.draft THEN
        IF m.checked_out THEN R(s, FALSE)
        ELSE
        LET version == m.version
            s1 == write_meta(s, doc_id, update_meta_checkout(m, user, NoVersion))
            s2 == log_checkout(s1, doc_id, user, version, NoVersion)
            s3 == [s2 EXCEPT !.workspace = @ \cup {<<user, doc_id>>}]
        IN R(s3, TRUE)
    ELSE IF doc_id \in s.effective THEN
        LET current_version == IF doc_id \in DOMAIN s.meta THEN m.version ELSE V(1, 0)
            new_version == V(Major(current_version), 1)
            s1 == [s EXCEPT !.archive = @ \cup {<<doc_id, current_version>>}]
            m1 == [update_meta_checkout(m, user, new_version)
                      EXCEPT !.status = "DRAFT", !.effective_version = current_version]
            s2 == write_meta(s1, doc_id, m1)
            s3 == log_checkout(s2, doc_id, user, new_version, current_version)
            s4 == [s3 EXCEPT !.draft = @ \cup {doc_id},
                             !.workspace = @ \cup {<<user, doc_id>>}]
        IN R(s4, TRUE)
    ELSE R(s, FALSE)

----------------------------------------------------------------------------
(* commands/checkin.py *)

cmd_checkin(s, user, doc_id) ==
    IF ~verify_user_identity(user) THEN R(s, FALSE)
    ELSE IF ~check_permission(user, "checkin", Null) THEN R(s, FALSE)
    ELSE IF <<user, doc_id>> \notin s.workspace THEN R(s, FALSE)
    ELSE
    LET m == read_meta(s, doc_id) IN
    IF ~check_permission(user, "checkin", m.responsible_user) THEN R(s, FALSE)
    ELSE
    LET version == m.version
        s1 == [s EXCEPT !.draft = @ \cup {doc_id}]
        s2 == write_meta(s1, doc_id, update_meta_checkin(m))
        s3 == log_checkin(s2, doc_id, user, version)
        s4 == [s3 EXCEPT !.workspace = @ \ {<<user, doc_id>>}]
    IN R(s4, TRUE)

----------------------------------------------------------------------------
(* commands/route.py *)

\* variant: approval routing without the approval gate
cmd_route_no_gate(s, user, doc_id, kind, assign, retire) ==
    IF ~verify_user_identity(user) THEN R(s, FALSE)
    ELSE IF ~check_permission(user, "route", Null) THEN R(s, FALSE)
    ELSE IF doc_id \notin s.draft THEN R(s, FALSE)
    ELSE
    LET m == read_meta(s, doc_id) IN
    IF m.checked_out THEN R(s, FALSE)
    ELSE IF m.responsible_user # Null /\ m.responsible_user # user THEN R(s, FALSE)
    ELSE IF kind \notin {"review", "approval"} THEN R(s, FALSE)
    ELSE
    LET current_status == m.status
        action == IF kind = "review" THEN "route_review" ELSE "route_approval"
        result == get_transition(current_status, action, m.executable, m.execution_phase)
    IN
    IF ~result.success THEN R(s, FALSE)
    ELSE
    LET target_status == result.to_status
        workflow_type == IF result.workflow_type # Null THEN result.workflow_type ELSE "UNKNOWN"
    IN
    IF retire /\ workflow_type \notin {"APPROVAL", "POST_APPROVAL"} THEN R(s, FALSE)
    ELSE IF retire /\ Major(m.version) < 1 THEN R(s, FALSE)
    ELSE
    LET m1 == IF retire THEN [m EXCEPT !.retiring = TRUE] ELSE m
        assignees == IF assign # <<>> THEN assign ELSE <<"qa">>
    IN
    IF target_status \notin TRANSITIONS[current_status] THEN R(s, FALSE)
    ELSE
    LET version == m1.version
        s1 == write_meta(s, doc_id, update_meta_route(m1, target_status, assignees))
        s2 == log_status_change(s1, doc_id, user, version, current_status, target_status)
        s3 == IF IsReviewWorkflow(workflow_type)
              THEN log_route_review(s2, doc_id, user, version, assignees, workflow_type)
              ELSE log_route_approval(s2, doc_id, user, version, assignees, workflow_type)
        s4 == [s3 EXCEPT !.inbox = @ \cup
                  {Task(a, doc_id, workflow_type, version) : a \in Range(assignees)}]
    IN R(s4, TRUE)

\* variant: --retire without the version check
cmd_route_retire_any_version(s, user, doc_id, kind, assign, retire) ==
    IF ~verify_user_identity(user) THEN R(s, FALSE)
    ELSE IF ~check_permission(user, "route", Null) THEN R(s, FALSE)
    ELSE IF doc_id \notin s.draft THEN R(s, FALSE)
    ELSE
    LET m == read_meta(s, doc_id) IN
    IF m.checked_out THEN R(s, FALSE)
    ELSE IF m.responsible_user # Null /\ m.responsible_user # user THEN R(s, FALSE)
    ELSE IF kind \notin {"review", "approval"} THEN R(s, FALSE)
    ELSE IF kind = "approval" /\ ~check_approval_gate(m) THEN R(s, FALSE)
    ELSE
    LET current_status == m.status
        action == IF kind = "review" THEN "route_review" ELSE "route_approval"
        result == get_transition(current_status, action, m.executable, m.execution_phase)
    IN
    IF ~result.success THEN R(s, FALSE)
    ELSE
    LET target_status == result.to_status
        workflow_type == IF result.workflow_type # Null THEN result.workflow_type ELSE "UNKNOWN"
    IN
    IF retire /\ workflow_type \notin {"APPROVAL", "POST_APPROVAL"} THEN R(s, FALSE)
    ELSE
    LET m1 == IF retire THEN [m EXCEPT !.retiring = TRUE] ELSE m
        assignees == IF assign # <<>> THEN assign ELSE <<"qa">>
    IN
    IF target_status \notin TRANSITIONS[current_status] THEN R(s, FALSE)
    ELSE
    LET version == m1.version
        s1 == write_meta(s, doc_id, update_meta_route(m1, target_status, assignees))
        s2 == log_status_change(s1, doc_id, user, version, current_status, target_status)
        s3 == IF IsReviewWorkflow(workflow_type)
              THEN log_route_review(s2, doc_id, user, version, assignees, workflow_type)
              ELSE log_route_approval(s2, doc_id, user, version, assignees, workflow_type)
        s4 == [s3 EXCEPT !.inbox = @ \cup
                  {Task(a, doc_id, workflow_type, version) : a \in Range(assignees)}]
    IN R(s4, TRUE)

\* kind is "review" (--review), "approval" (--approval) or Null (neither);
\* assign is the --assign list, <<>> when the flag is absent
cmd_route(s, user, doc_id, kind, assign, retire) ==
    IF ~verify_user_identity(user) THEN R(s, FALSE)
    ELSE IF ~check_permission(user, "route", Null) THEN R(s, FALSE)
    ELSE IF doc_id \notin s.draft THEN R(s, FALSE)
    ELSE
    LET m == read_meta(s, doc_id) IN
    IF m.checked_out THEN R(s, FALSE)
    ELSE IF m.responsible_user # Null /\ m.responsible_user # user THEN R(s, FALSE)
    ELSE IF kind \notin {"review", "approval"} THEN R(s, FALSE)
    ELSE IF kind = "approval" /\ ~check_approval_gate(m) THEN R(s, FALSE)
    ELSE
    LET current_status == m.status
        action == IF kind = "review" THEN "route_review" ELSE "route_approval"
        result == get_transition(current_status, action, m.executable, m.execution_phase)
    IN
    IF ~result.success THEN R(s, FALSE)
    ELSE
    LET target_status == result.to_status
        workflow_type == IF result.workflow_type # Null THEN result.workflow_type ELSE "UNKNOWN"
    IN
    IF retire /\ workflow_type \notin {"APPROVAL", "POST_APPROVAL"} THEN R(s, FALSE)
    ELSE IF retire /\ Major(m.version) < 1 THEN R(s, FALSE)
    ELSE
    LET m1 == IF retire THEN [m EXCEPT !.retiring = TRUE] ELSE m
        assignees == IF assign # <<>> THEN assign ELSE <<"qa">>
    IN
    IF target_status \notin TRANSITIONS[current_status] THEN R(s, FALSE)
    ELSE
    LET version == m1.version
        s1 == write_meta(s, doc_id, update_meta_route(m1, target_status, assignees))
        s2 == log_status_change(s1, doc_id, user, version, current_status, target_status)
        s3 == IF IsReviewWorkflow(workflow_type)
              THEN log_route_review(s2, doc_id, user, version, assignees, workflow_type)
              ELSE log_route_approval(s2, doc_id, user, version, assignees, workflow_type)
        s4 == [s3 EXCEPT !.inbox = @ \cup
                  {Task(a, doc_id, workflow_type, version) : a \in Range(assignees)}]
    IN R(s4, TRUE)

----------------------------------------------------------------------------
(* commands/assign.py *)

\* pending_assignees with the new users that are not in it yet appended
RECURSIVE AppendNew(_, _)
AppendNew(pending, new_assignees) ==
    IF new_assignees = <<>> THEN pending
    ELSE IF Head(new_assignees) \in Range(pending)
         THEN AppendNew(pending, Tail(new_assignees))
         ELSE AppendNew(Append(pending, Head(new_assignees)), Tail(new_assignees))

cmd_assign(s, user, doc_id, new_assignees) ==
    IF ~verify_user_identity(user) THEN R(s, FALSE)
    ELSE IF ~check_permission(user, "assign", Null) THEN R(s, FALSE)
    ELSE IF new_assignees = <<>> THEN R(s, FALSE)
    ELSE IF \E u \in Range(new_assignees) : u \notin VALID_USERS THEN R(s, FALSE)
    ELSE IF doc_id \notin s.draft THEN R(s, FALSE)
    ELSE
    LET m == read_meta(s, doc_id)
        current_status == m.status
        version == m.version
        pending_assignees == m.pending_assignees
    IN
    IF ~is_review_status(current_status) /\ ~is_approval_status(current_status)
    THEN R(s, FALSE)
    ELSE
    LET workflow_type ==
            CASE current_status = "IN_PRE_REVIEW" -> "PRE_REVIEW"
              [] current_status = "IN_POST_REVIEW" -> "POST_REVIEW"
              [] current_status = "IN_REVIEW" -> "REVIEW"
              [] current_status = "IN_PRE_APPROVAL" -> "PRE_APPROVAL"
              [] current_status = "IN_POST_APPROVAL" -> "POST_APPROVAL"
              [] OTHER -> "APPROVAL"
        added == {u \in Range(new_assignees) : u \notin Range(pending_assignees)}
        s1 == [s EXCEPT !.inbox = @ \cup
                  {Task(u, doc_id, workflow_type, version) : u \in added}]
        s2 == IF added # {}
              THEN write_meta(s1, doc_id,
                       [m EXCEPT !.pending_assignees = AppendNew(pending_assignees, new_assignees)])
              ELSE s1
    IN R(s2, TRUE)

----------------------------------------------------------------------------
(* commands/review.py *)

\* outcome is "RECOMMEND" (--recommend), "UPDATES_REQUIRED" (--request-updates)
\* or Null (neither flag); comment is Null when --comment is absent or empty
cmd_review(s, user, doc_id, outcome, comment) ==
    IF ~verify_user_identity(user) THEN R(s, FALSE)
    ELSE IF ~check_permission(user, "review", Null) THEN R(s, FALSE)
    ELSE IF comment = Null THEN R(s, FALSE)
    ELSE IF outcome = Null THEN R(s, FALSE)
    ELSE IF doc_id \notin s.draft THEN R(s, FALSE)
    ELSE
    LET m == read_meta(s, doc_id)
        current_status == m.status
        version == m.version
        pending_assignees == m.pending_assignees
    IN
    IF ~is_review_status(current_status) THEN R(s, FALSE)
    ELSE IF user \notin Range(pending_assignees) THEN R(s, FALSE)
    ELSE
    LET s1 == log_review(s, doc_id, user, version, outcome, comment)
        remaining_assignees == Without(pending_assignees, user)
        all_complete == Len(remaining_assignees) = 0
        new_status == IF all_complete THEN get_reviewed_status(current_status) ELSE Null
        s2 == IF new_status # Null
              THEN log_status_change(s1, doc_id, user, version, current_status, new_status)
              ELSE s1
        s3 == write_meta(s2, doc_id,
                  update_meta_review_complete(m, user, remaining_assignees, outcome, new_status))
        s4 == [s3 EXCEPT !.inbox = {t \in @ : ~(t.user = user /\ MatchesDoc(t, doc_id))}]
    IN R(s4, TRUE)

----------------------------------------------------------------------------
(* commands/approve.py *)

cmd_approve(s, user, doc_id) ==
    IF ~verify_user_identity(user) THEN R(s, FALSE)
    ELSE IF ~check_permission(user, "approve", Null) THEN R(s, FALSE)
    ELSE IF doc_id \notin s.draft THEN R(s, FALSE)
    ELSE
    LET m == read_meta(s, doc_id)
        current_status == m.status
        current_version == m.version
        pending_assignees == m.pending_assignees
    IN
    IF ~is_approval_status(current_status) THEN R(s, FALSE)
    ELSE IF user \notin Range(pending_assignees) THEN R(s, FALSE)
    ELSE
    LET s1 == log_approve(s, doc_id, user, current_version)
        remaining_assignees == Without(pending_assignees, user)
        all_approved == Len(remaining_assignees) = 0
        new_status == get_approved_status(current_status)
        new_version == V(Major(current_version) + 1, 0)
        \* archive the current draft, log the status change
        s2 == log_status_change(
                  [s1 EXCEPT !.archive = @ \cup {<<doc_id, current_version>>}],
                  doc_id, user, new_version, current_status, new_status)
        retired ==
            LET a1 == [s2 EXCEPT !.archive = @ \cup {<<doc_id, new_version>>},
                                 !.draft = @ \ {doc_id},
                                 !.effective = @ \ {doc_id}]
                m1 == [update_meta_approval(m, "RETIRED", new_version, TRUE)
                          EXCEPT !.retiring = FALSE]
                a2 == write_meta(a1, doc_id, m1)
                a3 == log_retire(a2, doc_id, user, current_version, new_version)
            IN log_status_change(a3, doc_id, user, new_version, new_status, "RETIRED")
        made_effective ==
            LET a1 == [s2 EXCEPT !.effective = @ \cup {doc_id}, !.draft = @ \ {doc_id}]
                m1 == update_meta_approval(m, "EFFECTIVE", new_version, TRUE)
                a2 == log_effective(a1, doc_id, user, current_version, new_version)
                a3 == log_status_change(a2, doc_id, user, new_version, new_status, "EFFECTIVE")
            IN write_meta(a3, doc_id, m1)
        stays_draft ==
            write_meta(s2, doc_id, update_meta_approval(m, new_status, new_version, FALSE))
        s3 == IF all_approved
              THEN IF new_status # Null
                   THEN IF m.retiring THEN retired
                        ELSE IF new_status = "APPROVED" THEN made_effective
                        ELSE stays_draft
                   ELSE s1
              ELSE write_meta(s1, doc_id, [m EXCEPT !.pending_assignees = remaining_assignees])
        s4 == [s3 EXCEPT !.inbox = {t \in @ : ~(t.user = user /\ MatchesDoc(t, doc_id))}]
    IN R(s4, TRUE)

----------------------------------------------------------------------------
(* commands/reject.py *)

\* variant: reject without the assignment check
cmd_reject_unassigned(s, user, doc_id, comment) ==
    IF ~verify_user_identity(user) THEN R(s, FALSE)
    ELSE IF ~check_permission(user, "reject", Null) THEN R(s, FALSE)
    ELSE IF comment = Null THEN R(s, FALSE)
    ELSE IF doc_id \notin s.draft THEN R(s, FALSE)
    ELSE
    LET m == read_meta(s, doc_id)
        current_status == m.status
        version == m.version
    IN
    IF ~is_approval_status(current_status) THEN R(s, FALSE)
    ELSE
    LET s1 == log_reject(s, doc_id, user, version, comment)
        new_status == get_rejection_target(current_status)
        s2 == log_status_change(s1, doc_id, user, version, current_status, new_status)
        m1 == [update_meta_approval(m, new_status, NoVersion, FALSE)
                  EXCEPT !.pending_assignees = <<>>]
        s3 == write_meta(s2, doc_id, m1)
        s4 == [s3 EXCEPT !.inbox = {t \in @ : ~MatchesApproval(t, doc_id)}]
    IN R(s4, TRUE)

cmd_reject(s, user, doc_id, comment) ==
    IF ~verify_user_identity(user) THEN R(s, FALSE)
    ELSE IF ~check_permission(user, "reject", Null) THEN R(s, FALSE)
    ELSE IF comment = Null THEN R(s, FALSE)
    ELSE IF doc_id \notin s.draft THEN R(s, FALSE)
    ELSE
    LET m == read_meta(s, doc_id)
        current_status == m.status
        version == m.version
    IN
    IF ~is_approval_status(current_status) THEN R(s, FALSE)
    ELSE IF user \notin Range(m.pending_assignees) THEN R(s, FALSE)
    ELSE
    LET s1 == log_reject(s, doc_id, user, version, comment)
        new_status == get_rejection_target(current_status)
        s2 == log_status_change(s1, doc_id, user, version, current_status, new_status)
        m1 == [update_meta_approval(m, new_status, NoVersion, FALSE)
                  EXCEPT !.pending_assignees = <<>>]
        s3 == write_meta(s2, doc_id, m1)
        s4 == [s3 EXCEPT !.inbox = {t \in @ : ~MatchesApproval(t, doc_id)}]
    IN R(s4, TRUE)

----------------------------------------------------------------------------
(* commands/release.py *)

\* variant: release changes the status and leaves execution_phase alone
cmd_release_keeps_phase(s, user, doc_id) ==
    IF ~verify_user_identity(user) THEN R(s, FALSE)
    ELSE IF ~check_permission(user, "release", Null) THEN R(s, FALSE)
    ELSE IF doc_id \notin s.draft THEN R(s, FALSE)
    ELSE
    LET m == read_meta(s, doc_id) IN
    IF ~m.executable THEN R(s, FALSE)
    ELSE IF ~check_permission(user, "release", m.responsible_user) THEN R(s, FALSE)
    ELSE IF m.status # "PRE_APPROVED" THEN R(s, FALSE)
    ELSE
    LET s1 == log_release(s, doc_id, user, m.version)
        s2 == log_status_change(s1, doc_id, user, m.version, "PRE_APPROVED", "IN_EXECUTION")
        m1 == [m EXCEPT !.status = "IN_EXECUTION"]
    IN R(write_meta(s2, doc_id, m1), TRUE)

cmd_release(s, user, doc_id) ==
    IF ~verify_user_identity(user) THEN R(s, FALSE)
    ELSE IF ~check_permission(user, "release", Null) THEN R(s, FALSE)
    ELSE IF doc_id \notin s.draft THEN R(s, FALSE)
    ELSE
    LET m == read_meta(s, doc_id) IN
    IF ~m.executable THEN R(s, FALSE)
    ELSE IF ~check_permission(user, "release", m.responsible_user) THEN R(s, FALSE)
    ELSE IF m.status # "PRE_APPROVED" THEN R(s, FALSE)
    ELSE
    LET s1 == log_release(s, doc_id, user, m.version)
        s2 == log_status_change(s1, doc_id, user, m.version, "PRE_APPROVED", "IN_EXECUTION")
        m1 == [m EXCEPT !.status = "IN_EXECUTION", !.execution_phase = POST_RELEASE]
    IN R(write_meta(s2, doc_id, m1), TRUE)

\* The project after each write of a release that goes through, in the order
\* of the writes: the RELEASE event, the STATUS_CHANGE event, the metadata.
\* A process killed between two writes leaves the project of that point.
release_writes(s, user, doc_id) ==
    LET m == read_meta(s, doc_id)
        s1 == log_release(s, doc_id, user, m.version)
        s2 == log_status_change(s1, doc_id, user, m.version, "PRE_APPROVED", "IN_EXECUTION")
        m1 == [m EXCEPT !.status = "IN_EXECUTION", !.execution_phase = POST_RELEASE]
        s3 == write_meta(s2, doc_id, m1)
    IN <<s1, s2, s3>>

----------------------------------------------------------------------------
(* commands/revert.py *)

\* variant: the REVERT event is logged before the status is tested
cmd_revert_logs_first(s, user, doc_id, reason) ==
    IF ~verify_user_identity(user) THEN R(s, FALSE)
    ELSE IF ~check_permission(user, "revert", Null) THEN R(s, FALSE)
    ELSE IF reason = Null THEN R(s, FALSE)
    ELSE IF doc_id \notin s.draft THEN R(s, FALSE)
    ELSE
    LET m == read_meta(s, doc_id) IN
    IF ~check_permission(user, "revert", m.responsible_user) THEN R(s, FALSE)
    ELSE
    LET s1 == log_revert(s, doc_id, user, m.version, reason)
        m1 == [m EXCEPT !.status = "IN_EXECUTION"]
    IN IF m.status # "POST_REVIEWED" THEN R(s1, FALSE)
       ELSE R(write_meta(s1, doc_id, m1), TRUE)

\* variant: revert without the test of the status
cmd_revert_any_status(s, user, doc_id, reason) ==
    IF ~verify_user_identity(user) THEN R(s, FALSE)
    ELSE IF ~check_permission(user, "revert", Null) THEN R(s, FALSE)
    ELSE IF reason = Null THEN R(s, FALSE)
    ELSE IF doc_id \notin s.draft THEN R(s, FALSE)
    ELSE
    LET m == read_meta(s, doc_id) IN
    IF ~check_permission(user, "revert", m.responsible_user) THEN R(s, FALSE)
    ELSE
    LET s1 == log_revert(s, doc_id, user, m.version, reason)
        m1 == [m EXCEPT !.status = "IN_EXECUTION"]
    IN R(write_meta(s1, doc_id, m1), TRUE)

cmd_revert(s, user, doc_id, reason) ==
    IF ~verify_user_identity(user) THEN R(s, FALSE)
    ELSE IF ~check_permission(user, "revert", Null) THEN R(s, FALSE)
    ELSE IF reason = Null THEN R(s, FALSE)
    ELSE IF doc_id \notin s.draft THEN R(s, FALSE)
    ELSE
    LET m == read_meta(s, doc_id) IN
    IF ~check_permission(user, "revert", m.responsible_user) THEN R(s, FALSE)
    ELSE IF m.status # "POST_REVIEWED" THEN R(s, FALSE)
    ELSE
    LET s1 == log_revert(s, doc_id, user, m.version, reason)
        m1 == [m EXCEPT !.status = "IN_EXECUTION"]
    IN R(write_meta(s1, doc_id, m1), TRUE)

----------------------------------------------------------------------------
(* commands/close.py *)

\* variant: close deletes the draft without writing the effective file
cmd_close_no_effective(s, user, doc_id) ==
    IF ~verify_user_identity(user) THEN R(s, FALSE)
    ELSE IF ~check_permission(user, "close", Null) THEN R(s, FALSE)
    ELSE IF doc_id \notin s.draft THEN R(s, FALSE)
    ELSE
    LET m == read_meta(s, doc_id) IN
    IF ~m.executable THEN R(s, FALSE)
    ELSE IF ~check_permission(user, "close", m.responsible_user) THEN R(s, FALSE)
    ELSE IF m.status # "POST_APPROVED" THEN R(s, FALSE)
    ELSE
    LET s1 == [s EXCEPT !.draft = @ \ {doc_id}]
        s2 == log_close(s1, doc_id, user, m.version)
        s3 == log_status_change(s2, doc_id, user, m.version, m.status, "CLOSED")
        m1 == [m EXCEPT !.status = "CLOSED",
                        !.responsible_user = Null,
                        !.checked_out = FALSE,
                        !.checked_out_date = Null,
                        !.pending_assignees = <<>>]
        s4 == write_meta(s3, doc_id, m1)
        s5 == [s4 EXCEPT !.workspace = @ \ {<<user, doc_id>>}]
    IN R(s5, TRUE)

cmd_close(s, user, doc_id) ==
    IF ~verify_user_identity(user) THEN R(s, FALSE)
    ELSE IF ~check_permission(user, "close", Null) THEN R(s, FALSE)
    ELSE IF doc_id \notin s.draft THEN R(s, FALSE)
    ELSE
    LET m == read_meta(s, doc_id) IN
    IF ~m.executable THEN R(s, FALSE)
    ELSE IF ~check_permission(user, "close", m.responsible_user) THEN R(s, FALSE)
    ELSE IF m.status # "POST_APPROVED" THEN R(s, FALSE)
    ELSE
    LET s1 == [s EXCEPT !.effective = @ \cup {doc_id}, !.draft = @ \ {doc_id}]
        s2 == log_close(s1, doc_id, user, m.version)
        s3 == log_status_change(s2, doc_id, user, m.version, m.status, "CLOSED")
        m1 == [m EXCEPT !.status = "CLOSED",
                        !.responsible_user = Null,
                        !.checked_out = FALSE,
                        !.checked_out_date = Null,
                        !.pending_assignees = <<>>]
        s4 == write_meta(s3, doc_id, m1)
        s5 == [s4 EXCEPT !.workspace = @ \ {<<user, doc_id>>}]
    IN R(s5, TRUE)

----------------------------------------------------------------------------
(* commands/cancel.py *)

\* not any(cr_dir.iterdir()) once the document's own files are unlinked: no
\* file of a nested document is in the folder
folder_empty(s, doc_id) ==
    ~\E x \in s.draft \cup s.effective : x # doc_id /\ IsPrefix(doc_id, x)

\* variant: the caller is looked up among the administrators and the
\* version is not checked
cmd_cancel_any_version(s, user, doc_id, confirm) ==
    IF user \notin USER_GROUPS["administrator"] THEN R(s, FALSE)
    ELSE IF doc_id \notin DOMAIN s.meta THEN R(s, FALSE)
    ELSE
    LET m == s.meta[doc_id] IN
    IF m.checked_out THEN R(s, FALSE)
    ELSE IF ~confirm THEN R(s, FALSE)
    ELSE
    LET s1 == [s EXCEPT !.draft = @ \ {doc_id},
                        !.effective = @ \ {doc_id},
                        !.folders = IF get_doc_type(doc_id) = "CR" /\ folder_empty(s, doc_id)
                                    THEN @ \ {doc_id} ELSE @,
                        !.meta = Del(@, doc_id),
                        !.audit = Del(@, doc_id),
                        !.workspace = @ \ {<<u, doc_id>> : u \in {"lead", "claude", "qa"}},
                        !.inbox = {t \in @ : ~MatchesDoc(t, doc_id)}]
    IN R(s1, TRUE)

cmd_cancel(s, user, doc_id, confirm) ==
    \* USER_GROUPS["initiators"] : a KeyError when the table has no such key,
    \* raised before anything is read or written
    IF "initiators" \notin DOMAIN USER_GROUPS THEN R(s, FALSE)
    ELSE IF user \notin USER_GROUPS["initiators"] THEN R(s, FALSE)
    ELSE IF doc_id \notin DOMAIN s.meta THEN R(s, FALSE)
    ELSE
    LET m == s.meta[doc_id] IN
    IF Major(m.version) >= 1 THEN R(s, FALSE)
    ELSE IF m.checked_out THEN R(s, FALSE)
    ELSE IF ~confirm THEN R(s, FALSE)
    ELSE
    LET s1 == [s EXCEPT !.draft = @ \ {doc_id},
                        !.effective = @ \ {doc_id},
                        !.folders = IF get_doc_type(doc_id) = "CR" /\ folder_empty(s, doc_id)
                                    THEN @ \ {doc_id} ELSE @,
                        !.meta = Del(@, doc_id),
                        !.audit = Del(@, doc_id),
                        !.workspace = @ \ {<<u, doc_id>> : u \in {"lead", "claude", "qa"}},
                        !.inbox = {t \in @ : ~MatchesDoc(t, doc_id)}]
    IN R(s1, TRUE)

----------------------------------------------------------------------------
(* qms_io.py and commands/comments.py *)

AUTHOR_FRONTMATTER_FIELDS == {"title", "revision_summary"}

filter_author_frontmatter(frontmatter) ==
    [k \in DOMAIN frontmatter \cap AUTHOR_FRONTMATTER_FIELDS |-> frontmatter[k]]

\* The frontmatter of the file a checkin reads from the workspace: the
\* author's two fields, and workflow fields as an author may have typed them
\* in (documents from before the metadata files carried them).
AuthoredFrontmatter ==
    [title |-> "title", revision_summary |-> "Initial draft",
     status |-> "IN_REVIEW", version |-> V(0, 1)]

\* read_document of a draft or effective file: every file under QMS/ is
\* written by write_document_minimal, which keeps the author's fields only
read_document(s, doc_id) == filter_author_frontmatter(AuthoredFrontmatter)

\* frontmatter.get(key, default)
frontmatter_get(frontmatter, key, default) ==
    IF key \in DOMAIN frontmatter THEN frontmatter[key] ELSE default

\* the REVIEW and REJECT events that carry a comment; a falsy version
\* (None or "", here NoVersion) selects the events of every version
get_comments(s, doc_id, version) ==
    SelectSeq(read_audit_log(s, doc_id),
              LAMBDA e : /\ e.event \in {"REVIEW", "REJECT"}
                         /\ e.comment # Null
                         /\ (version = NoVersion \/ e.version = version))

get_latest_version_comments(s, doc_id, current_version) ==
    get_comments(s, doc_id, current_version)

\* version is the --version argument, NoVersion when absent; the result is
\* the exit status and the comments printed
cmd_comments(s, user, doc_id, version) ==
    IF ~verify_user_identity(user) THEN [ok |-> FALSE, comments |-> <<>>]
    ELSE IF doc_id \notin s.draft /\ doc_id \notin s.effective
    THEN [ok |-> FALSE, comments |-> <<>>]
    ELSE
    LET frontmatter == read_document(s, doc_id)
        status == frontmatter_get(frontmatter, "status", "")
        fm_version == frontmatter_get(frontmatter, "version", NoVersion)
    IN
    IF status \in {"IN_REVIEW", "IN_PRE_REVIEW", "IN_POST_REVIEW"}
    THEN [ok |-> FALSE, comments |-> <<>>]
    ELSE [ok |-> TRUE,
          comments |-> IF version # NoVersion
                       THEN get_comments(s, doc_id, version)
                       ELSE get_latest_version_comments(s, doc_id, fm_version)]

----------------------------------------------------------------------------
(* Projects that exist before the first modelled command: each is the       *)
(* result of running the commands above from an empty project.              *)

SOP1 == MakeId("SOP", 1)
CR1 == MakeId("CR", 1)

\* the SOP lifecycle: claude creates SOP-001, checks it in, routes it to qa
\* who recommends, routes it for approval, qa approves (v1.0 EFFECTIVE)
SopCreated == cmd_create(EmptyProject, "claude", "SOP", NoParent).s
SopDraft == cmd_checkin(SopCreated, "claude", SOP1).s
SopInReview == cmd_route(SopDraft, "claude", SOP1, "review", <<>>, FALSE).s
SopReviewed == cmd_review(SopInReview, "qa", SOP1, "RECOMMEND", "text").s
SopInApproval == cmd_route(SopReviewed, "claude", SOP1, "approval", <<>>, FALSE).s

\* the SOP reviewed with the outcome UPDATES_REQUIRED
SopUpdatesRequired ==
    cmd_review(SopInReview, "qa", SOP1, "UPDATES_REQUIRED", "text").s
SopEffective == cmd_approve(SopInApproval, "qa", SOP1).s

\* the reviewed SOP routed to two approvers
SopInApprovalTwo ==
    cmd_route(SopReviewed, "claude", SOP1, "approval", <<"qa", "lead">>, FALSE).s

\* the SOP in approval, checked out again by its owner
SopInApprovalOut == cmd_checkout(SopInApproval, "claude", SOP1).s

\* lead revises the effective SOP and gets the revision reviewed (v1.1 REVIEWED)
SopRevOut == cmd_checkout(SopEffective, "lead", SOP1).s
SopRevDraft == cmd_checkin(SopRevOut, "lead", SOP1).s
SopRevInReview == cmd_route(SopRevDraft, "lead", SOP1, "review", <<>>, FALSE).s
SopRevReviewed == cmd_review(SopRevInReview, "qa", SOP1, "RECOMMEND", "text").s

\* ... and routed for retirement
SopRetiring == cmd_route(SopRevReviewed, "lead", SOP1, "approval", <<>>, TRUE).s

\* the CR lifecycle up to POST_APPROVED (v2.0)
CrCreated == cmd_create(EmptyProject, "claude", "CR", NoParent).s
CrDraft == cmd_checkin(CrCreated, "claude", CR1).s
CrInPreReview == cmd_route(CrDraft, "claude", CR1, "review", <<>>, FALSE).s
CrPreReviewed == cmd_review(CrInPreReview, "qa", CR1, "RECOMMEND", "text").s
CrInPreApproval == cmd_route(CrPreReviewed, "claude", CR1, "approval", <<>>, FALSE).s
CrPreApproved == cmd_approve(CrInPreApproval, "qa", CR1).s
CrInExecution == cmd_release(CrPreApproved, "claude", CR1).s
CrInPostReview == cmd_route(CrInExecution, "claude", CR1, "review", <<>>, FALSE).s
CrPostReviewed == cmd_review(CrInPostReview, "qa", CR1, "RECOMMEND", "text").s
CrInPostApproval == cmd_route(CrPostReviewed, "claude", CR1, "approval", <<>>, FALSE).s
CrPostApproved == cmd_approve(CrInPostApproval, "qa", CR1).s

\* a VAR nested under CR-001, created while CR-001 is a checked-in draft,
\* checked in and routed for review
VAR1 == CR1 \o <<"VAR", 1>>
VarCreated == cmd_create(CrDraft, "claude", "VAR", CR1).s
VarDraft == cmd_checkin(VarCreated, "claude", VAR1).s
VarInReview == cmd_route(VarDraft, "claude", VAR1, "review", <<>>, FALSE).s

\* the projects a behaviour starts from
Projects ==
    {EmptyProject, SopDraft, SopReviewed, SopUpdatesRequired,
     SopInApprovalTwo, SopInApprovalOut,
     SopRevReviewed, SopRetiring,
     CrPreReviewed, CrInPreApproval, CrInExecution, CrPostReviewed, CrPostApproved,
     VarInReview}

----------------------------------------------------------------------------
(* The state machine *)

\* the files on disk as one project record
Cur ==
    [meta |-> meta, draft |-> draft, effective |-> effective, archive |-> archive,
     workspace |-> workspace, inbox |-> inbox, audit |-> audit, folders |-> folders]

Invocation(cmd, user, doc, arg, ok) ==
    [cmd |-> cmd, user |-> user, doc |-> doc, arg |-> arg, ok |-> ok]

\* One invocation of the CLI: the project becomes r.s, exit code 0 iff r.ok.
\* A refused invocation changes nothing on disk, so a behaviour that goes on
\* after it visits no project that the behaviours without it do not visit:
\* the model follows a behaviour up to its first refused invocation.
Run(cmd, user, doc, arg, r) ==
    /\ last.ok
    /\ r.ok => steps < MaxSteps
    /\ meta' = r.s.meta
    /\ draft' = r.s.draft
    /\ effective' = r.s.effective
    /\ archive' = r.s.archive
    /\ workspace' = r.s.workspace
    /\ inbox' = r.s.inbox
    /\ audit' = r.s.audit
    /\ folders' = r.s.folders
    /\ last' = Invocation(cmd, user, doc, arg, r.ok)
    /\ steps' = IF r.ok THEN steps + 1 ELSE steps

Init ==
    /\ \E p \in Projects :
        /\ meta = p.meta
        /\ draft = p.draft
        /\ effective = p.effective
        /\ archive = p.archive
        /\ workspace = p.workspace
        /\ inbox = p.inbox
        /\ audit = p.audit
        /\ folders = p.folders
    /\ last = Invocation("none", Null, <<>>, Null, TRUE)
    /\ steps = 0

\* the --assign lists the model passes to route: absent, two known users,
\* and a name that is not a user
RouteAssign == {<<>>, <<"qa", "lead">>, <<"nobody">>}
\* the users the model passes to assign
AssignUsers == {<<"lead">>, <<"qa">>}
\* The documents the commands are invoked on: those with metadata.  For any
\* other id there is no draft, no effective file and no workspace copy, and
\* every handler returns 1 at its existence check.
Known == DOMAIN meta

\* create is invoked without --parent, which a VAR is refused for; a nested
\* document enters a behaviour with the project VarInReview.  The numbers
\* issued stay within MaxDocNum.
Create ==
    \E user \in Users, doc_type \in DocTypes, parent_id \in {NoParent} :
        /\ new_doc_id(Cur, doc_type, parent_id)[Len(new_doc_id(Cur, doc_type, parent_id))]
               <= MaxDocNum
        /\ Run("create", user, new_doc_id(Cur, doc_type, parent_id),
               Null, cmd_create(Cur, user, doc_type, parent_id))

Checkout ==
    \E user \in Users, d \in Known :
        Run("checkout", user, d, Null, cmd_checkout(Cur, user, d))

Checkin ==
    \E user \in Users, d \in Known :
        Run("checkin", user, d, Null, cmd_checkin(Cur, user, d))

\* --retire is passed with --approval; without --review or --approval the
\* command is refused whatever the other flags.  The invocation is recorded
\* as "retire" for --approval --retire and as its kind otherwise.
Route ==
    \E user \in Users, d \in Known, kind \in {"review", "approval", Null},
       assign \in RouteAssign, retire \in BOOLEAN :
        /\ retire => kind = "approval"
        /\ kind = Null => assign = <<>>
        /\ Run("route", user, d, IF retire THEN "retire" ELSE kind,
               cmd_route(Cur, user, d, kind, assign, retire))

Assign ==
    \E user \in Users, d \in Known, new_assignees \in AssignUsers :
        Run("assign", user, d, Null, cmd_assign(Cur, user, d, new_assignees))

\* a review without an outcome flag, or without a comment, is refused
Review ==
    \E user \in Users, d \in Known, outcome \in {"RECOMMEND", "UPDATES_REQUIRED", Null},
       comment \in {"text", Null} :
        /\ comment = Null => outcome = "RECOMMEND"
        /\ Run("review", user, d, outcome, cmd_review(Cur, user, d, outcome, comment))

Approve ==
    \E user \in Users, d \in Known :
        Run("approve", user, d, Null, cmd_approve(Cur, user, d))

Reject ==
    \E user \in Users, d \in Known, comment \in {"text", Null} :
        Run("reject", user, d, Null, cmd_reject(Cur, user, d, comment))

Release ==
    \E user \in Users, d \in Known :
        Run("release", user, d, Null, cmd_release(Cur, user, d))

Revert ==
    \E user \in Users, d \in Known, reason \in {"text", Null} :
        Run("revert", user, d, Null, cmd_revert(Cur, user, d, reason))

Close ==
    \E user \in Users, d \in Known :
        Run("close", user, d, Null, cmd_close(Cur, user, d))

Cancel ==
    \E user \in Users, d \in Known, confirm \in BOOLEAN :
        Run("cancel", user, d, IF confirm THEN "confirm" ELSE Null,
            cmd_cancel(Cur, user, d, confirm))

Next ==
    \/ Create
    \/ Checkout
    \/ Checkin
    \/ Route
    \/ Assign
    \/ Review
    \/ Approve
    \/ Reject
    \/ Release
    \/ Revert
    \/ Close
    \/ Cancel

Spec == Init /\ [][Next]_vars

----------------------------------------------------------------------------
(* Properties *)

\* C1: once a document's status is CLOSED or RETIRED, no command (create,
\* checkout, checkin, route, assign, review, approve, reject, release,
\* revert, close, cancel) changes that document's status.
C1_TerminalStatusUnchanged ==
    [][\A d \in DOMAIN meta :
          meta[d].status \in {"CLOSED", "RETIRED"} =>
              d \in DOMAIN meta' /\ meta'[d].status = meta[d].status]_vars

C3_ReviewGate ==
    [][\A d \in DOMAIN meta :
          is_review_status(meta[d].status) =>
              LET final == /\ last'.cmd = "review" /\ last'.ok /\ last'.doc = d
                           /\ Range(meta[d].pending_assignees) = {last'.user}
              IN /\ d \in DOMAIN meta'
                 /\ meta'[d].status # meta[d].status => final
                 /\ final => /\ meta'[d].status = get_reviewed_status(meta[d].status)
                             /\ meta'[d].pending_assignees = <<>>
                 /\ ~final => /\ meta'[d].status = meta[d].status
                              /\ (last'.cmd = "review" /\ last'.ok /\ last'.doc = d) =>
                                    meta'[d].pending_assignees # <<>>]_vars

\* one of two reviewers has submitted: the document is still in review
C3_Witness ==
    /\ last.cmd = "review" /\ last.ok
    /\ is_review_status(meta[last.doc].status)
    /\ meta[last.doc].pending_assignees # <<>>
    /\ last.user \notin Range(meta[last.doc].pending_assignees)

\* C4: the version becomes (major + 1).0 exactly in the approve of the last
\* pending approver, which also moves the document out of its approval
\* status; an approve that leaves approvers pending changes neither the
\* version nor the status.
C4_VersionBump ==
    [][\A d \in DOMAIN meta :
          d \in DOMAIN meta' =>
              LET m == meta[d]
                  approve == /\ last'.cmd = "approve" /\ last'.ok /\ last'.doc = d
                             /\ is_approval_status(m.status)
                  final == approve /\ Range(m.pending_assignees) = {last'.user}
                  bumped == meta'[d].version = V(Major(m.version) + 1, 0)
              IN /\ final => /\ bumped
                             /\ meta'[d].status \in
                                  {"EFFECTIVE", "PRE_APPROVED", "POST_APPROVED", "RETIRED"}
                 /\ bumped => final
                 /\ (approve /\ ~final) => /\ meta'[d].version = m.version
                                           /\ meta'[d].status = m.status]_vars

\* the second of two approvers has approved version 0.1: the document is
\* EFFECTIVE at 1.0
C4_Witness ==
    /\ last.cmd = "approve" /\ last.ok
    /\ meta[last.doc].version = V(1, 0)
    /\ meta[last.doc].status = "EFFECTIVE"
    /\ \E i, j \in DOMAIN audit[last.doc] :
          /\ audit[last.doc][i].event = "APPROVE"
          /\ audit[last.doc][j].event = "APPROVE"
          /\ audit[last.doc][i].user # audit[last.doc][j].user
          /\ audit[last.doc][i].version = V(0, 1)
          /\ audit[last.doc][j].version = V(0, 1)

\* C5: a successful checkin of a document whose status is REVIEWED,
\* PRE_REVIEWED or POST_REVIEWED leaves it in DRAFT with no pending assignees.
C5_CheckinResets ==
    [][(/\ last'.cmd = "checkin" /\ last'.ok
        /\ last'.doc \in DOMAIN meta
        /\ meta[last'.doc].status \in {"REVIEWED", "PRE_REVIEWED", "POST_REVIEWED"})
       => /\ meta'[last'.doc].status = "DRAFT"
          /\ meta'[last'.doc].pending_assignees = <<>>]_vars

\* a reviewed version was checked out and checked in again: the log ends
\* REVIEW, STATUS_CHANGE, CHECKOUT, CHECKIN and the status is DRAFT
C5_Witness ==
    /\ last.cmd = "checkin" /\ last.ok
    /\ meta[last.doc].status = "DRAFT"
    /\ LET log == audit[last.doc] IN
       /\ Len(log) >= 4
       /\ log[Len(log)].event = "CHECKIN"
       /\ log[Len(log) - 1].event = "CHECKOUT"
       /\ log[Len(log) - 2].event = "STATUS_CHANGE"
       /\ log[Len(log) - 2].to_status \in {"REVIEWED", "PRE_REVIEWED", "POST_REVIEWED"}

C7_DraftIffStatus ==
    \A d \in DOMAIN meta :
        d \in draft <=> meta[d].status \notin {"EFFECTIVE", "RETIRED", "CLOSED"}

\* C8 (as stated): a document's effective file exists iff its status is
\* EFFECTIVE or CLOSED.
C8_EffectiveIffStatus ==
    \A d \in DOMAIN meta :
        d \in effective <=> meta[d].status \in {"EFFECTIVE", "CLOSED"}

\* C8: a document's effective file exists iff its status is EFFECTIVE or
\* CLOSED, or the document is a revision checked out from an effective file
\* (effective_version is set) and is not RETIRED.
C8_EffectiveIffStatusOrRevision ==
    \A d \in DOMAIN meta :
        d \in effective <=>
            \/ meta[d].status \in {"EFFECTIVE", "CLOSED"}
            \/ meta[d].effective_version # NoVersion /\ meta[d].status # "RETIRED"

\* an effective document was checked out: the draft of the revision and the
\* effective file exist side by side
C8_Witness ==
    /\ last.cmd = "checkout" /\ last.ok
    /\ last.doc \in effective /\ last.doc \in draft
    /\ meta[last.doc].status = "DRAFT"
    /\ meta[last.doc].effective_version # NoVersion

\* C9: responsible_user goes from a user to null only in a command that
\* makes the document EFFECTIVE, CLOSED or RETIRED; checkin, route, review,
\* reject, release, revert, an approve that leaves approvers pending and an
\* approve to PRE_APPROVED or POST_APPROVED leave it as it was.
C9_OwnerCleared ==
    [][\A d \in DOMAIN meta :
          d \in DOMAIN meta' =>
              LET m == meta[d]
                  n == meta'[d]
              IN /\ (m.responsible_user # Null /\ n.responsible_user = Null) =>
                        /\ n.status \in {"EFFECTIVE", "CLOSED", "RETIRED"}
                        /\ m.status \notin {"EFFECTIVE", "CLOSED", "RETIRED"}
                 /\ (/\ last'.doc = d
                     /\ \/ last'.cmd \in {"checkin", "route", "review", "reject",
                                          "release", "revert"}
                        \/ /\ last'.cmd = "approve"
                           /\ n.status \notin {"EFFECTIVE", "RETIRED"})
                    => n.responsible_user = m.responsible_user]_vars

\* the final approval of a non-executable document has made it EFFECTIVE and
\* cleared its owner
C9_Witness ==
    /\ last.cmd = "approve" /\ last.ok
    /\ meta[last.doc].status = "EFFECTIVE"
    /\ meta[last.doc].responsible_user = Null
    /\ \E i \in DOMAIN audit[last.doc] :
          audit[last.doc][i].event = "CREATE" /\ audit[last.doc][i].user # Null

\* C10: while a document has responsible_user U, checkin, route, release,
\* revert and close by any other user are refused and change nothing.
C10_OwnerOnly ==
    [][\A d \in DOMAIN meta :
          (/\ last'.cmd \in {"checkin", "route", "release", "revert", "close"}
           /\ last'.doc = d
           /\ meta[d].responsible_user # Null
           /\ last'.user # meta[d].responsible_user)
          => ~last'.ok /\ Cur' = Cur]_vars

\* an administrator who is not the owner tried to release a PRE_APPROVED
\* document and was refused
C10_Witness ==
    /\ last.cmd = "release" /\ ~last.ok
    /\ last.doc \in DOMAIN meta
    /\ meta[last.doc].status = "PRE_APPROVED"
    /\ meta[last.doc].responsible_user # Null
    /\ last.user # meta[last.doc].responsible_user
    /\ last.user \in HARDCODED_ADMINS

\* C11: checkout of a document that has a draft is refused, changing
\* nothing, whenever responsible_user is a user other than the caller; a
\* checkout of such a document that succeeds makes the caller the owner,
\* marks the document checked out and puts a copy in the caller's workspace.
C11_CheckoutOwnedDraft ==
    [][\A d \in DOMAIN meta :
          (last'.cmd = "checkout" /\ last'.doc = d /\ d \in draft) =>
              /\ meta[d].responsible_user \notin {Null, last'.user} =>
                     ~last'.ok /\ Cur' = Cur
              /\ last'.ok =>
                     /\ meta'[d].responsible_user = last'.user
                     /\ meta'[d].checked_out
                     /\ <<last'.user, d>> \in workspace']_vars

\* C12: a review, approve or reject by a user who is not in the document's
\* pending_assignees is refused and changes nothing (status, version,
\* pending_assignees, audit log, inboxes); so a user who has submitted in
\* the current cycle cannot submit again.
C12_AssignedOnly ==
    [][\A d \in DOMAIN meta :
          (/\ last'.cmd \in {"review", "approve", "reject"}
           /\ last'.doc = d
           /\ last'.user \notin Range(meta[d].pending_assignees))
          => /\ ~last'.ok
             /\ meta' = meta /\ audit' = audit /\ inbox' = inbox]_vars

\* a reviewer who has submitted while another reviewer is still pending
\* tried to review again, with an outcome and a comment, and was refused
C12_Witness ==
    /\ last.cmd = "review" /\ ~last.ok /\ last.arg # Null
    /\ last.doc \in DOMAIN meta
    /\ meta[last.doc].status = "IN_REVIEW"
    /\ meta[last.doc].pending_assignees # <<>>
    /\ last.user \notin Range(meta[last.doc].pending_assignees)
    /\ LET log == audit[last.doc]
       IN \E i \in DOMAIN log :
             /\ log[i].event = "REVIEW" /\ log[i].user = last.user
             /\ \A j \in DOMAIN log : j > i => log[j].event # "ROUTE_REVIEW"

\* C13: the execution_phase of an executable document changes only in a
\* successful release of that document, from pre_release to post_release;
\* a successful release leaves it post_release, and no other command
\* (checkout, checkin, route, review, reject, revert, approve, close)
\* changes it, so it changes at most once and never back.
C13_PhaseMonotonic ==
    [][\A d \in DOMAIN meta :
          meta[d].executable =>
              /\ d \in DOMAIN meta' /\ meta'[d].executable
              /\ meta'[d].execution_phase # meta[d].execution_phase =>
                     /\ last'.cmd = "release" /\ last'.doc = d /\ last'.ok
                     /\ meta[d].execution_phase = PRE_RELEASE
                     /\ meta'[d].execution_phase = POST_RELEASE
              /\ (last'.cmd = "release" /\ last'.doc = d /\ last'.ok) =>
                     meta'[d].execution_phase = POST_RELEASE
              /\ meta[d].execution_phase = POST_RELEASE =>
                     meta'[d].execution_phase = POST_RELEASE]_vars

\* a release has just moved an executable document to IN_EXECUTION and
\* post_release
C13_Witness ==
    /\ last.cmd = "release" /\ last.ok
    /\ meta[last.doc].executable
    /\ meta[last.doc].status = "IN_EXECUTION"
    /\ meta[last.doc].execution_phase = POST_RELEASE
    /\ \E i \in DOMAIN audit[last.doc] : audit[last.doc][i].event = "RELEASE"

\* C14: a successful reject (by an assigned approver, in IN_APPROVAL,
\* IN_PRE_APPROVAL or IN_POST_APPROVAL) sets the status to REVIEWED,
\* PRE_REVIEWED or POST_REVIEWED respectively, keeps the version and
\* empties pending_assignees, however many approvers have approved before.
C14_RejectTarget ==
    [][\A d \in DOMAIN meta :
          (/\ last'.cmd = "reject" /\ last'.doc = d
           /\ meta[d].status \in {"IN_APPROVAL", "IN_PRE_APPROVAL", "IN_POST_APPROVAL"}
           /\ last'.user \in Range(meta[d].pending_assignees)
           /\ last'.ok)
          => /\ meta'[d].status =
                   CASE meta[d].status = "IN_APPROVAL" -> "REVIEWED"
                     [] meta[d].status = "IN_PRE_APPROVAL" -> "PRE_REVIEWED"
                     [] meta[d].status = "IN_POST_APPROVAL" -> "POST_REVIEWED"
             /\ meta'[d].version = meta[d].version
             /\ meta'[d].pending_assignees = <<>>]_vars

\* a reject has sent a document back to REVIEWED after another approver had
\* approved it in the same approval round
C14_Witness ==
    /\ last.cmd = "reject" /\ last.ok
    /\ meta[last.doc].status = "REVIEWED"
    /\ meta[last.doc].pending_assignees = <<>>
    /\ LET log == audit[last.doc]
       IN \E i \in DOMAIN log :
             /\ log[i].event = "APPROVE" /\ log[i].user # last.user
             /\ \A j \in DOMAIN log : j > i => log[j].event # "ROUTE_APPROVAL"

C16_CancelRemovesAll ==
    [][\A d \in DOMAIN meta :
          (/\ last'.cmd = "cancel" /\ last'.arg = "confirm" /\ last'.doc = d
           /\ last'.user \in USER_GROUPS["administrator"]
           /\ meta[d].version.major < 1
           /\ meta[d].status = "DRAFT"
           /\ ~meta[d].checked_out)
          => /\ last'.ok
             /\ d \notin draft' /\ d \notin effective'
             /\ d \notin DOMAIN meta' /\ d \notin DOMAIN audit'
             /\ \A u \in Users : <<u, d>> \notin workspace'
             /\ \A t \in inbox' : t.doc # d]_vars

\* C17: routing for approval with --retire of a document whose version is
\* below 1.0 is refused and changes nothing, and the stored metadata of a
\* document whose version is below 1.0 never has retiring set.
C17_RetireRefusedBelowV1 ==
    [][\A d \in DOMAIN meta :
          /\ (/\ last'.cmd = "route" /\ last'.arg = "retire" /\ last'.doc = d
              /\ meta[d].version.major < 1)
             => ~last'.ok /\ Cur' = Cur
          /\ (d \in DOMAIN meta' /\ meta'[d].version.major < 1) => ~meta'[d].retiring]_vars

\* the owner's retirement routing of a checked-in REVIEWED document at
\* version 0.1, whose review recommended it, has been refused
C17_Witness ==
    /\ last.cmd = "route" /\ last.arg = "retire" /\ ~last.ok
    /\ last.doc \in DOMAIN meta
    /\ LET m == meta[last.doc]
       IN /\ m.version = V(0, 1)
          /\ m.status = "REVIEWED"
          /\ m.review_outcome = "RECOMMEND"
          /\ m.responsible_user = last.user
          /\ ~m.checked_out
          /\ ~m.retiring

\* C18: when the last pending approver approves a document whose metadata
\* has retiring set, the status becomes RETIRED, neither a draft nor an
\* effective file is left, responsible_user is null and retiring is no
\* longer set.
C18_RetirementApproval ==
    [][\A d \in DOMAIN meta :
          (/\ last'.cmd = "approve" /\ last'.doc = d /\ last'.ok
           /\ meta[d].retiring
           /\ Range(meta[d].pending_assignees) = {last'.user})
          => /\ meta'[d].status = "RETIRED"
             /\ d \notin draft' /\ d \notin effective'
             /\ meta'[d].responsible_user = Null
             /\ ~meta'[d].retiring]_vars

\* the approval of a retirement has just retired a document that had an
\* effective version
C18_Witness ==
    /\ last.cmd = "approve" /\ last.ok
    /\ meta[last.doc].status = "RETIRED"
    /\ meta[last.doc].effective_version # NoVersion
    /\ last.doc \notin draft \cup effective
    /\ LET log == audit[last.doc]
       IN \E i \in DOMAIN log : log[i].event = "RETIRE" /\ log[i].user = last.user

\* C19: a document that has not been routed since its creation (no
\* ROUTE_REVIEW or ROUTE_APPROVAL event after its latest CREATE event) has
\* status DRAFT, version 0.1 and the user who created it as
\* responsible_user, whatever checkouts and checkins have happened.
C19_NeverRoutedDraft ==
    \A d \in DOMAIN meta :
        LET log == read_audit_log(Cur, d)
            creates == {i \in DOMAIN log : log[i].event = "CREATE"}
            created == CHOOSE i \in creates : \A j \in creates : j <= i
            routed == \E j \in DOMAIN log :
                         /\ j > created
                         /\ log[j].event \in {"ROUTE_REVIEW", "ROUTE_APPROVAL"}
        IN (creates # {} /\ ~routed) =>
               /\ meta[d].status = "DRAFT"
               /\ meta[d].version = V(0, 1)
               /\ meta[d].responsible_user = log[created].user

\* C20: while a document's status in its metadata is IN_REVIEW,
\* IN_PRE_REVIEW or IN_POST_REVIEW, the comments query of any user, with or
\* without --version, returns no comments for it.
C20_CommentsHiddenInReview ==
    \A d \in DOMAIN meta :
        meta[d].status \in {"IN_REVIEW", "IN_PRE_REVIEW", "IN_POST_REVIEW"} =>
            \A user \in Users, version \in {NoVersion, meta[d].version} :
                cmd_comments(Cur, user, d, version).comments = <<>>

\* C21: every user in a document's pending_assignees is a known user, and
\* is allowed the action of the current phase: review while the status is a
\* review status, approve and reject while it is an approval status.
C21_AssigneesKnownAndAllowed ==
    \A d \in DOMAIN meta :
        \A u \in Range(meta[d].pending_assignees) :
            /\ u \in VALID_USERS
            /\ is_review_status(meta[d].status) =>
                   verify_user_identity(u) /\ check_permission(u, "review", Null)
            /\ is_approval_status(meta[d].status) =>
                   /\ verify_user_identity(u)
                   /\ check_permission(u, "approve", Null)
                   /\ check_permission(u, "reject", Null)

\* C22: an assign succeeds only when the caller's group is quality
\* and the status is an IN_*_REVIEW or IN_*_APPROVAL status; in every other
\* case pending_assignees and the inboxes are unchanged.
C22_AssignQualityOnly ==
    [][\A d \in DOMAIN meta :
          (last'.cmd = "assign" /\ last'.doc = d) =>
              LET permitted ==
                      /\ get_user_group(last'.user) = "quality"
                      /\ meta[d].status \in {"IN_REVIEW", "IN_PRE_REVIEW", "IN_POST_REVIEW",
                                             "IN_APPROVAL", "IN_PRE_APPROVAL",
                                             "IN_POST_APPROVAL"}
              IN /\ last'.ok => permitted
                 /\ ~permitted =>
                        /\ d \in DOMAIN meta'
                        /\ meta'[d].pending_assignees = meta[d].pending_assignees
                        /\ inbox' = inbox]_vars

\* C23: release of a document whose status is not PRE_APPROVED is refused
\* and changes nothing; so is revert when the status is not POST_REVIEWED
\* and close when the status is not POST_APPROVED.
C23_StatusGuards ==
    [][\A d \in DOMAIN meta :
          (/\ last'.doc = d
           /\ \/ last'.cmd = "release" /\ meta[d].status # "PRE_APPROVED"
              \/ last'.cmd = "revert" /\ meta[d].status # "POST_REVIEWED"
              \/ last'.cmd = "close" /\ meta[d].status # "POST_APPROVED")
          => ~last'.ok /\ Cur' = Cur]_vars

\* the owner of a checked-in executable document in IN_EXECUTION has tried
\* to release it again and was refused
C23_Witness ==
    /\ last.cmd = "release" /\ ~last.ok
    /\ last.doc \in draft
    /\ meta[last.doc].executable
    /\ meta[last.doc].status = "IN_EXECUTION"
    /\ meta[last.doc].responsible_user = last.user
    /\ last.user \in HARDCODED_ADMINS

\* C24: in the metadata of every document, checked_out = true implies that
\* responsible_user is not null and checked_out_date is not null.
C24_CheckedOutHasOwner ==
    \A d \in DOMAIN meta :
        meta[d].checked_out =>
            meta[d].responsible_user # Null /\ meta[d].checked_out_date # Null

\* a checkout has just marked a document checked out by the caller, on a
\* document that has been effective, closed or retired before (its owner
\* had been cleared)
C24_Witness ==
    /\ last.cmd = "checkout" /\ last.ok
    /\ meta[last.doc].checked_out
    /\ meta[last.doc].responsible_user = last.user
    /\ meta[last.doc].checked_out_date # Null
    /\ meta[last.doc].effective_version # NoVersion

\* C25 as stated: after the final approval of a retirement (the last pending
\* approver approves a document routed with --retire) the last event of the
\* document's audit log is a RETIRE event.
C25_AuditEndsWithRetire ==
    [][\A d \in DOMAIN meta :
          (/\ last'.cmd = "approve" /\ last'.doc = d /\ last'.ok
           /\ meta[d].retiring
           /\ Range(meta[d].pending_assignees) = {last'.user})
          => audit'[d][Len(audit'[d])].event = "RETIRE"]_vars

\* C25 amended: after the final approval of a retirement the audit log ends
\* with a RETIRE event followed by the STATUS_CHANGE event to RETIRED, both
\* by the approver.
C25_AuditEndsWithRetireThenStatusChange ==
    [][\A d \in DOMAIN meta :
          (/\ last'.cmd = "approve" /\ last'.doc = d /\ last'.ok
           /\ meta[d].retiring
           /\ Range(meta[d].pending_assignees) = {last'.user})
          => LET log == audit'[d]
                 n == Len(log)
             IN /\ n >= Len(audit[d]) + 2
                /\ log[n - 1].event = "RETIRE"
                /\ log[n - 1].user = last'.user
                /\ log[n].event = "STATUS_CHANGE"
                /\ log[n].to_status = "RETIRED"
                /\ log[n].user = last'.user]_vars

\* a retirement has just been approved: the document is RETIRED and its
\* audit log holds the approver's RETIRE event
C25_Witness ==
    /\ last.cmd = "approve" /\ last.ok
    /\ meta[last.doc].status = "RETIRED"
    /\ LET log == audit[last.doc]
       IN /\ \E i \in DOMAIN log :
                log[i].event = "ROUTE_APPROVAL" /\ log[i].wtype = "APPROVAL"
          /\ log[Len(log) - 1].event = "RETIRE"
          /\ log[Len(log) - 1].from_version.major >= 1

\* C26: every checkin that rewrites the draft while the document is in an
\* IN_*_REVIEW, *_REVIEWED or IN_*_APPROVAL status sets the status back to
\* DRAFT, so the reviewed content is the content that gets approved.
C26_CheckinInvalidatesReview ==
    [][\A d \in DOMAIN meta :
          (/\ last'.cmd = "checkin" /\ last'.doc = d /\ last'.ok
           /\ meta[d].status \in {"IN_REVIEW", "IN_PRE_REVIEW", "IN_POST_REVIEW",
                                  "REVIEWED", "PRE_REVIEWED", "POST_REVIEWED",
                                  "IN_APPROVAL", "IN_PRE_APPROVAL", "IN_POST_APPROVAL"})
          => meta'[d].status = "DRAFT"]_vars

\* C27: the writes of a command come in the order document files, metadata,
\* audit events, task files; so at no point between two writes of a command
\* does the audit log hold an event of that command while the command's
\* metadata update is not yet written.  Stated here for release: at every
\* point of a release that goes through, if the audit log has grown then the
\* metadata is already the metadata the release ends with.
C27_MetadataBeforeAudit ==
    \A d \in DOMAIN meta, user \in Users :
        LET r == cmd_release(Cur, user, d)
            writes == release_writes(Cur, user, d)
        IN r.ok =>
               \A i \in DOMAIN writes :
                   Len(read_audit_log(writes[i], d)) > Len(read_audit_log(Cur, d))
                       => writes[i].meta[d] = r.s.meta[d]

\* C28: every command that changes a document's metadata status from s to
\* a different status s' appends STATUS_CHANGE events for it to the
\* document's audit log: one with from_status = s and one with to_status =
\* s' (the same event, or the two ends of a change logged in two hops).
C28_StatusChangeLogged ==
    [][\A d \in DOMAIN meta :
          (d \in DOMAIN meta' /\ meta'[d].status # meta[d].status) =>
              LET old == read_audit_log(Cur, d)
                  log == audit'[d]
                  new == {i \in DOMAIN log : i > Len(old) /\ log[i].event = "STATUS_CHANGE"}
              IN /\ IsPrefix(old, log)
                 /\ \E i \in new : log[i].from_status = meta[d].status
                 /\ \E i \in new : log[i].to_status = meta'[d].status]_vars

\* C29: an invocation that ends in a refusal leaves the document files, the
\* metadata, the audit logs, the workspaces and the inboxes as they were.
C29_RefusalChangesNothing ==
    [][~last'.ok =>
          /\ meta' = meta /\ audit' = audit
          /\ draft' = draft /\ effective' = effective /\ archive' = archive
          /\ folders' = folders
          /\ workspace' = workspace /\ inbox' = inbox]_vars

\* the quality user's assign on a document that is not in review or in
\* approval has been refused, at the last test before assign's writes
C29_Witness ==
    /\ last.cmd = "assign" /\ ~last.ok
    /\ get_user_group(last.user) = "quality"
    /\ last.doc \in draft
    /\ meta[last.doc].status \in {"DRAFT", "REVIEWED", "PRE_REVIEWED", "POST_REVIEWED",
                                  "PRE_APPROVED", "IN_EXECUTION", "POST_APPROVED"}

\* C30: the final approval retires the document exactly when retiring is set
\* (C18), so a retire flag of an earlier, rejected approval cycle must not
\* reach a later one: after an approval routing without the retire flag the
\* document's retiring is not set.
C30_RetireFlagOfThisCycle ==
    [][(last'.ok /\ last'.cmd = "route" /\ last'.arg = "approval")
          => ~meta'[last'.doc].retiring]_vars

\* C31: create never issues an id for which metadata or an audit log already
\* exists, so the metadata of a retired document is never overwritten.
C31_CreateIssuesFreshId ==
    [][(last'.ok /\ last'.cmd = "create")
          => /\ last'.doc \notin DOMAIN meta
             /\ last'.doc \notin DOMAIN audit]_vars

\* the pending assignees of doc_id submit in turn (a review with RECOMMEND in
\* a review status, an approve in an approval status) until pending_assignees
\* is empty or one of them is refused
RECURSIVE submit_all(_, _)
submit_all(s, doc_id) ==
    LET m == read_meta(s, doc_id) IN
    IF m.pending_assignees = <<>> THEN s
    ELSE
    LET u == Head(m.pending_assignees)
        r == IF is_review_status(m.status)
             THEN cmd_review(s, u, doc_id, "RECOMMEND", "text")
             ELSE cmd_approve(s, u, doc_id)
    IN IF r.ok THEN submit_all(r.s, doc_id) ELSE s

\* C32: a routed document can finish its cycle: from an IN_*_REVIEW status
\* the submissions of its pending assignees reach the reviewed status, from
\* an IN_*_APPROVAL status they reach an approved status; no pending
\* assignee is left who can never submit.
C32_CycleCanFinish ==
    \A d \in DOMAIN meta :
        LET after == read_meta(submit_all(Cur, d), d).status IN
        /\ is_review_status(meta[d].status) => after = get_reviewed_status(meta[d].status)
        /\ is_approval_status(meta[d].status) =>
               after \in {"EFFECTIVE", "RETIRED", "PRE_APPROVED", "POST_APPROVED"}

\* a document in review with a pending assignee who is not a user stays as
\* it is whatever command is invoked
C32_UnknownAssigneeBlocksReview ==
    [][\A d \in DOMAIN meta :
          (is_review_status(meta[d].status)
             /\ \E u \in Range(meta[d].pending_assignees) : ~verify_user_identity(u))
          => /\ d \in DOMAIN meta'
             /\ meta'[d].status = meta[d].status
             /\ \E u \in Range(meta'[d].pending_assignees) : ~verify_user_identity(u)]_vars

\* C33: a review, approve, reject or cancel on a document deletes no inbox
\* task of another document, a nested document of it included.
C33_OtherTasksKept ==
    [][(last'.ok /\ last'.cmd \in {"review", "approve", "reject", "cancel"})
          => \A t \in inbox : t.doc # last'.doc => t \in inbox']_vars

C36_TaskIffPending ==
    /\ \A t \in inbox :
          t.doc \in DOMAIN meta /\ t.user \in Range(meta[t.doc].pending_assignees)
    /\ \A d \in DOMAIN meta :
          \A u \in Range(meta[d].pending_assignees) :
              \E t \in inbox : t.user = u /\ t.doc = d

\* C37: a workspace copy of document D is in user U's workspace if and only
\* if D is checked out with responsible_user = U.
C37_WorkspaceIffCheckedOut ==
    /\ \A w \in workspace :
          /\ w[2] \in DOMAIN meta
          /\ meta[w[2]].checked_out
          /\ meta[w[2]].responsible_user = w[1]
    /\ \A d \in DOMAIN meta :
          meta[d].checked_out => <<meta[d].responsible_user, d>> \in workspace

\* the lookup over the whole table: every current status, action,
\* executable flag and execution phase (absent included)
TableUnambiguous ==
    \A current_status \in Status, action \in Action, is_executable \in BOOLEAN,
       execution_phase \in {PRE_RELEASE, POST_RELEASE, Null} :
        LET matching == Matching(current_status, action, is_executable, execution_phase)
            result == get_transition(current_status, action, is_executable, execution_phase)
        IN /\ Cardinality(matching) <= 1
           /\ matching = {} => (~result.success /\ result.to_status = Null)
           /\ matching # {} => (result.success /\ result.to_status \in Status)

\* C38: for every current status, action, executable flag and execution
\* phase (absent included) at most one transition of the table matches, and
\* when none matches get_transition fails and returns no target status; so
\* it is for the status, flag and phase of every document of the project.
C38_AtMostOneTransition ==
    /\ TableUnambiguous
    /\ \A d \in DOMAIN meta, action \in Action :
          LET m == meta[d]
              matching == Matching(m.status, action, m.executable, m.execution_phase)
              result == get_transition(m.status, action, m.executable, m.execution_phase)
          IN /\ Cardinality(matching) <= 1
             /\ matching = {} => (~result.success /\ result.to_status = Null)

\* an executable draft has been routed for review: of the three
\* route_review transitions from DRAFT one matched
C38_Witness ==
    /\ last.cmd = "route" /\ last.ok /\ last.arg = "review"
    /\ meta[last.doc].executable
    /\ meta[last.doc].execution_phase = PRE_RELEASE
    /\ meta[last.doc].status = "IN_PRE_REVIEW"
    /\ Cardinality({t \in WORKFLOW_TRANSITIONS :
                       t.from_status = "DRAFT" /\ t.action = "route_review"}) = 3

\* the workflow type of an IN_* status
workflow_of(status) ==
    CASE status = "IN_REVIEW" -> "REVIEW"
      [] status = "IN_PRE_REVIEW" -> "PRE_REVIEW"
      [] status = "IN_POST_REVIEW" -> "POST_REVIEW"
      [] status = "IN_APPROVAL" -> "APPROVAL"
      [] status = "IN_PRE_APPROVAL" -> "PRE_APPROVAL"
      [] status = "IN_POST_APPROVAL" -> "POST_APPROVAL"
      [] OTHER -> Null

\* the events of doc_id's audit log that route it to workflow_type at version
routings(doc_id, workflow_type, version) ==
    {i \in DOMAIN audit[doc_id] :
        /\ audit[doc_id][i].event \in {"ROUTE_REVIEW", "ROUTE_APPROVAL"}
        /\ audit[doc_id][i].wtype = workflow_type
        /\ audit[doc_id][i].version = version}

C40_PendingIffInWorkflow ==
    \A d \in DOMAIN meta :
        meta[d].pending_assignees # <<>>
            <=> (is_review_status(meta[d].status) \/ is_approval_status(meta[d].status))

\* the last of two approvers has approved: the document has left
\* IN_APPROVAL and nobody is pending
C40_Witness ==
    /\ last.cmd = "approve" /\ last.ok
    /\ last.doc \in DOMAIN meta
    /\ meta[last.doc].pending_assignees = <<>>
    /\ meta[last.doc].status = "EFFECTIVE"
    /\ Cardinality({i \in DOMAIN audit[last.doc] :
                       /\ audit[last.doc][i].event = "APPROVE"
                       /\ audit[last.doc][i].version = V(0, 1)}) = 2

====
